---- MODULE Spec2Model ----
(***************************************************************************)
(* Relation evaluators, their balancers and the batch generators of        *)
(* simple_relational_reasoning/datagen (object_relations.py,               *)
(* object_gen.py).                                                         *)
(*                                                                         *)
(* An object is a record of its fields: the scalar position fields x and   *)
(* y, and the categorical fields color and shape, each kept as the one-hot *)
(* vector the tensors hold (a tuple of 0/1 indexed 1..n_types; python      *)
(* index k is tuple index k + 1).  A scene is a tuple of objects; python   *)
(* slot i is tuple index i + 1.                                            *)
(***************************************************************************)
EXTENDS Integers, Sequences, FiniteSets, TLC

VARIABLES
    kind,            \* the relation class under call
    objects,         \* the scene tensor the relation works on (mutated in place)
    passed,          \* the scene as it was when the call started
    current_label,   \* the current_label argument of balance
    pc,              \* position of the relation call
    label,           \* value returned by evaluate
    locals,          \* local variables of the running balancer
    gen              \* state of a SmartBalancedBatchObjectGenerator call

vars == <<kind, objects, passed, current_label, pc, label, locals, gen>>

----------------------------------------------------------------------------
(* Bounds of the model *)

\* largest number of objects in a scene (the generator's n)
MaxObjects == 3
\* max_coord of the x field generator: x is drawn from min_coord .. max_coord - 1
XMaxCoord == 3
\* max_coord of the y field generator
YMaxCoord == 2
\* n_types of the categorical field generators (color, shape)
NTypes == 3

----------------------------------------------------------------------------
(* Field generators (object_fields.py): value domains *)

min_coord == 0

max_coord(f) == IF f = "x" THEN XMaxCoord ELSE YMaxCoord

n_types(f) == NTypes

\* the coordinates a position field generator emits
Coords(f) == min_coord .. (max_coord(f) - 1)

\* torch.zeros(n); t[index] = 1
OneHotTensor(index, n) == [k \in 1..n |-> IF k = index + 1 THEN 1 ELSE 0]

Abs(v) == IF v < 0 THEN -v ELSE v

\* torch.sign
Sign(v) == IF v < 0 THEN -1 ELSE IF v > 0 THEN 1 ELSE 0

\* the values torch.rand(tuple()) - 0.5 takes, by sign: torch.rand draws from
\* [0, 1) in steps of 2^-24, so below, exactly at, or above 0.5
RandMinusHalf == {-1, 0, 1}

----------------------------------------------------------------------------
(* ObjectRelation: shared configuration *)

position_field_names == <<"x", "y">>

\* torch.randperm(n)[:2]: two distinct slots
RandPermPairs(n) == {p \in (1..n) \X (1..n) : p[1] # p[2]}

SetField(objs, i, f, v) == [objs EXCEPT ![i] = [@ EXCEPT ![f] = v]]

----------------------------------------------------------------------------
(* OneDAdjacentRelation *)

relevant_field_name == "x"

\* torch.cdist(positions, positions, 1) on the relevant field
L1Distance1D(objs, i, j) == Abs(objs[i][relevant_field_name] - objs[j][relevant_field_name])

OneDAdjacentEvaluate(objs) ==
    \E i \in DOMAIN objs : \E j \in DOMAIN objs : L1Distance1D(objs, i, j) = 1

\* ShiftOne without the two edge branches
ShiftOneNoEdges(objs, i, f, r) == SetField(objs, i, f, objs[i][f] + Sign(r))

\* the edge handling and the shift of balance, on field f of slot i
ShiftOne(objs, i, f, r) ==
    IF objs[i][f] = min_coord
    THEN SetField(objs, i, f, min_coord + 1)
    ELSE IF objs[i][f] = max_coord(f) - 1
         THEN SetField(objs, i, f, max_coord(f) - 2)
         ELSE SetField(objs, i, f, objs[i][f] + Sign(r))

\* balance after the label check: i = index_to_modify, j = index_to_set_next_to,
\* r = torch.rand(tuple()) - 0.5
OneDAdjacentBalance(objs, i, j, r) ==
    ShiftOne(SetField(objs, i, relevant_field_name, objs[j][relevant_field_name]),
             i, relevant_field_name, r)

----------------------------------------------------------------------------
(* MultipleDAdjacentRelation *)

\* torch.cdist(positions, positions, 1) over the position fields
L1Distance(objs, i, j) ==
    Abs(objs[i].x - objs[j].x) + Abs(objs[i].y - objs[j].y)

MultipleDAdjacentEvaluate(objs) ==
    \E i \in DOMAIN objs : \E j \in DOMAIN objs : L1Distance(objs, i, j) = 1

\* the loop copying every position field of slot j onto slot i
CopyPosition(objs, i, j) ==
    [objs EXCEPT ![i] = [@ EXCEPT !.x = objs[j].x, !.y = objs[j].y]]

\* balance after the label check: slice_index = random.randint(0, 1)
MultipleDAdjacentBalance(objs, i, j, slice_index, r) ==
    ShiftOne(CopyPosition(objs, i, j), i, position_field_names[slice_index + 1], r)

----------------------------------------------------------------------------
(* ColorAboveColorRelation *)

above_color_index == 0
below_color_index == 1
\* stuck_count_to_perturb_x, a constructor parameter (10 when not given)
stuck_count_to_perturb_x == 1

above_color_tensor == OneHotTensor(above_color_index, n_types("color"))
below_color_tensor == OneHotTensor(below_color_index, n_types("color"))

\* colors.eq(t).all(dim=1): the slots whose color vector is t
SlotsOfColor(objs, t) == {i \in DOMAIN objs : objs[i].color = t}

SetMax(S) == CHOOSE m \in S : \A v \in S : v <= m

ColorAboveColorEvaluate(objs) ==
    LET above == SlotsOfColor(objs, above_color_tensor)
        below == SlotsOfColor(objs, below_color_tensor)
    IN  IF above = {} THEN FALSE
        ELSE IF below = {} THEN TRUE
        ELSE \E a \in above : \A b \in below : objs[a].y >= objs[b].y

\* _object_in_position: object_positions is unsqueezed to (1, n, 2), so
\* .all(dim=1) runs over the n objects and leaves one entry per coordinate;
\* the first value returned is whether any of these entries is set
ObjectInPosition(objs, position) ==
    LET object_positions == <<[i \in DOMAIN objs |-> <<objs[i].x, objs[i].y>>]>>
        all_dim_1 == [b \in DOMAIN object_positions |->
                         [c \in 1..2 |-> \A i \in DOMAIN object_positions[b] :
                                             object_positions[b][i][c] = position[c]]]
        matching_indices == {bc \in (DOMAIN all_dim_1) \X (1..2) : all_dim_1[bc[1]][bc[2]]}
    IN  matching_indices # {}

\* balance up to the collision loop: the scene after the optional recolouring
\* (r = random.randint(0, n - 1), used only when no above-colour object exists)
ColorBalanceRecolor(objs, r) ==
    IF SlotsOfColor(objs, above_color_tensor) = {}
    THEN SetField(objs, r, "color", above_color_tensor)
    ELSE objs


\* max_below_color_position with the below-colour heights left out
max_below_color_position_no_below(objs) == min_coord

max_below_color_position(objs) ==
    LET below == SlotsOfColor(objs, below_color_tensor)
    IN  IF below = {} THEN min_coord ELSE SetMax({objs[b].y : b \in below})

\* one pass of the while loop with stuck_count already incremented to sc:
\* rx = random.randint(min_coord, max_coord - 1) for x, drawn only when
\* sc > stuck_count_to_perturb_x
NewAboveColorX(objs, index, sc, rx) ==
    IF sc > stuck_count_to_perturb_x THEN rx ELSE objs[index].x

MoveTo(objs, index, nx, ny) ==
    [objs EXCEPT ![index] = [@ EXCEPT !.x = nx, !.y = ny]]

----------------------------------------------------------------------------
(* ObjectCountRelation *)

first_field_index == 0

first_object_tensor(cfg) == OneHotTensor(first_field_index, n_types(cfg.first_field_name))
second_object_tensor(cfg) == OneHotTensor(cfg.second_field_index, n_types(cfg.second_field_name))

FirstObjects(cfg, objs) ==
    {i \in DOMAIN objs : objs[i][cfg.first_field_name] = first_object_tensor(cfg)}
SecondObjects(cfg, objs) ==
    {i \in DOMAIN objs : objs[i][cfg.second_field_name] = second_object_tensor(cfg)}

ObjectCountEvaluate(cfg, objs) ==
    Cardinality(FirstObjects(cfg, objs)) > Cardinality(SecondObjects(cfg, objs))

\* ReassignSecond without the assignment of 0 to the old category
ReassignSecondKeepingOld(cfg, objs, assign) ==
    [i \in DOMAIN objs |->
        IF i \in DOMAIN assign
        THEN [objs[i] EXCEPT ![cfg.second_field_name] = [@ EXCEPT ![assign[i] + 1] = 1]]
        ELSE objs[i]]

\* objects[idx, start + second_field_index] = 0; objects[idx, new_assignments] = 1:
\* assign maps each modified slot to its new category index
ReassignSecond(cfg, objs, assign) ==
    [i \in DOMAIN objs |->
        IF i \in DOMAIN assign
        THEN [objs[i] EXCEPT ![cfg.second_field_name] =
                 [[@ EXCEPT ![cfg.second_field_index + 1] = 0] EXCEPT ![assign[i] + 1] = 1]]
        ELSE objs[i]]


\* AssignFirst with the assignment dropped
AssignFirstDropped(cfg, objs, indices) == objs

\* objects[indices, first_field_slice] = first_object_tensor
AssignFirst(cfg, objs, indices) ==
    [i \in DOMAIN objs |->
        IF i \in indices
        THEN [objs[i] EXCEPT ![cfg.first_field_name] = first_object_tensor(cfg)]
        ELSE objs[i]]

\* new_assignment_options
NewAssignmentOptions(cfg) == (0..(n_types(cfg.second_field_name) - 1)) \ {cfg.second_field_index}

\* perm[:k] of a set of slots: any k of them, all of them when k exceeds their number
Prefixes(S, k) ==
    {T \in SUBSET S : Cardinality(T) = (IF k < Cardinality(S) THEN k ELSE Cardinality(S))}

----------------------------------------------------------------------------
(* IdenticalObjectsRelation *)

property_field_names == <<"color", "shape">>

\* torch.cat of the property fields, one row per object
PropertyRows(objs) == [i \in DOMAIN objs |-> objs[i].color \o objs[i].shape]

\* evaluate: object_properties is unsqueezed to (1, n, d), and the loop runs
\* over its first dimension, comparing entry i with the entries after it
IdenticalObjectsEvaluate(objs) ==
    LET object_properties == <<PropertyRows(objs)>>
        width == Len(objs[1].color) + Len(objs[1].shape)
    IN  \E i \in 1..(Len(object_properties) - 1) :
            \E b \in (i + 1)..Len(object_properties) :
                \E c \in 1..width :
                    \A k \in DOMAIN objs :
                        object_properties[b][k][c] = object_properties[i][k][c]

\* balance after the label check
IdenticalObjectsBalance(objs, i, j) ==
    [objs EXCEPT ![i] = [@ EXCEPT !.color = objs[j].color, !.shape = objs[j].shape]]

----------------------------------------------------------------------------
(* relation.evaluate, by relation class *)

Evaluate(k, objs) ==
    CASE k.class = "OneDAdjacentRelation" -> OneDAdjacentEvaluate(objs)
      [] k.class = "MultipleDAdjacentRelation" -> MultipleDAdjacentEvaluate(objs)
      [] k.class = "ColorAboveColorRelation" -> ColorAboveColorEvaluate(objs)
      [] k.class = "ObjectCountRelation" -> ObjectCountEvaluate(k.kwargs, objs)
      [] k.class = "IdenticalObjectsRelation" -> IdenticalObjectsEvaluate(objs)

----------------------------------------------------------------------------
(* Scenes the field generators produce *)

\* the fields a relation class reads or writes; the other fields of an object
\* hold one fixed sample of their generator
FieldsOf(class) ==
    CASE class = "OneDAdjacentRelation" -> {"x"}
      [] class = "MultipleDAdjacentRelation" -> {"x", "y"}
      [] class = "ColorAboveColorRelation" -> {"x", "y", "color"}
      [] class = "ObjectCountRelation" -> {"color", "shape"}
      [] class = "IdenticalObjectsRelation" -> {"color", "shape"}

\* number of values of field f among the objects drawn for a class
Radix(class, f) ==
    IF f \notin FieldsOf(class) THEN 1
    ELSE IF f \in {"x", "y"} THEN max_coord(f) - min_coord ELSE n_types(f)

ObjectCodes(class) ==
    0..(Radix(class, "x") * Radix(class, "y") * Radix(class, "color") * Radix(class, "shape") - 1)

\* the object with code c: one sample of every field generator, concatenated
ObjectOfCode(class, c) ==
    LET rx == Radix(class, "x")
        ry == Radix(class, "y")
        rc == Radix(class, "color")
    IN  [x |-> min_coord + (c % rx),
         y |-> min_coord + ((c \div rx) % ry),
         color |-> OneHotTensor((c \div (rx * ry)) % rc, n_types("color")),
         shape |-> OneHotTensor(c \div (rx * ry * rc), n_types("shape"))]

\* scenes are drawn up to the order of their slots: evaluate does not depend on
\* the order and every balancer picks its slots by a random permutation
IsScene(class, objs) ==
    \E n \in 2..MaxObjects : \E s \in [1..n -> ObjectCodes(class)] :
        /\ \A i \in 1..(n - 1) : s[i] <= s[i + 1]
        /\ objs = [i \in 1..n |-> ObjectOfCode(class, s[i])]

----------------------------------------------------------------------------
(* Relation instances *)

DefaultKwargs == [first_field_name |-> "color", second_field_name |-> "shape",
                  second_field_index |-> 0]
SameFieldKwargs == [first_field_name |-> "color", second_field_name |-> "color",
                    second_field_index |-> 1]

Relation(class) == [class |-> class, kwargs |-> DefaultKwargs]

AdjacentRelations == {Relation("OneDAdjacentRelation"), Relation("MultipleDAdjacentRelation")}
ColorAboveRelations == {Relation("ColorAboveColorRelation")}
ObjectCountRelations == {Relation("ObjectCountRelation"),
                         [class |-> "ObjectCountRelation", kwargs |-> SameFieldKwargs]}
IdenticalRelations == {Relation("IdenticalObjectsRelation")}
AllRelations == AdjacentRelations \cup ColorAboveRelations \cup ObjectCountRelations
                    \cup IdenticalRelations

NoLocals == [index_to_modify |-> 0, index_to_set_next_to |-> 0, stuck_count |-> 0,
             max_below_color_position |-> 0, recolored |-> FALSE,
             num_second_objects_to_modify |-> 0, second_object_indices_to_modify |-> {},
             new_assignments |-> << >>,
             min_objects_to_modify |-> 0, num_objects_to_modify |-> 0,
             indices_to_modify |-> {}]

NoGen == [pc |-> "none"]

\* a relation instance and a scene, before evaluate or balance is called on it
InitRelation(relations) ==
    /\ kind \in relations
    /\ IsScene(kind.class, objects)
    /\ passed = objects
    /\ current_label \in {0, 1}
    /\ pc = "start"
    /\ label = "none"
    /\ locals = NoLocals
    /\ gen = NoGen


\* BalanceRaises with the test turned around
BalanceRaisesOnNegative(lbl) == lbl # 1

\* the check every balance starts with
BalanceRaises(lbl) == lbl # 0

\* relation.evaluate(objects), on a fresh scene or on the scene balance returned
EvaluateCall ==
    /\ pc \in {"start", "balanced"}
    /\ gen.pc = "none"
    /\ label' = Evaluate(kind, objects)
    /\ pc' = IF pc = "start" THEN "evaluated" ELSE "reevaluated"
    /\ UNCHANGED <<kind, objects, passed, current_label, locals, gen>>

OneDAdjacentBalanceCall ==
    /\ pc = "start"
    /\ kind.class = "OneDAdjacentRelation"
    /\ IF BalanceRaises(current_label)
       THEN pc' = "raised" /\ UNCHANGED <<objects, locals>>
       ELSE \E p \in RandPermPairs(Len(objects)) : \E r \in RandMinusHalf :
               /\ objects' = OneDAdjacentBalance(objects, p[1], p[2], r)
               /\ locals' = [locals EXCEPT !.index_to_modify = p[1],
                                           !.index_to_set_next_to = p[2]]
               /\ pc' = "balanced"
    /\ UNCHANGED <<kind, passed, current_label, label, gen>>

MultipleDAdjacentBalanceCall ==
    /\ pc = "start"
    /\ kind.class = "MultipleDAdjacentRelation"
    /\ IF BalanceRaises(current_label)
       THEN pc' = "raised" /\ UNCHANGED <<objects, locals>>
       ELSE \E p \in RandPermPairs(Len(objects)) : \E r \in RandMinusHalf :
            \E slice_index \in 0..(Len(position_field_names) - 1) :
               /\ objects' = MultipleDAdjacentBalance(objects, p[1], p[2], slice_index, r)
               /\ locals' = [locals EXCEPT !.index_to_modify = p[1],
                                           !.index_to_set_next_to = p[2]]
               /\ pc' = "balanced"
    /\ UNCHANGED <<kind, passed, current_label, label, gen>>

\* balance up to the collision loop: the label check, the recolouring when no
\* above-colour object exists and the choice of the object to relocate
ColorAboveColorBalanceCall ==
    /\ pc = "start"
    /\ kind.class = "ColorAboveColorRelation"
    /\ IF BalanceRaises(current_label)
       THEN pc' = "raised" /\ UNCHANGED <<objects, locals>>
       ELSE \E r \in DOMAIN objects :
               LET recolored == ColorBalanceRecolor(objects, r)
               IN  \E index \in SlotsOfColor(recolored, above_color_tensor) :
                      /\ objects' = recolored
                      /\ locals' = [locals EXCEPT
                            !.index_to_modify = index,
                            !.recolored = (recolored # objects),
                            !.max_below_color_position = max_below_color_position(recolored),
                            !.stuck_count = 0]
                      /\ pc' = "collision_loop"
    /\ UNCHANGED <<kind, passed, current_label, label, gen>>

\* stuck_count is read only by "stuck_count > stuck_count_to_perturb_x": the
\* model stops counting one above the threshold
CountStuck(sc) ==
    IF sc > stuck_count_to_perturb_x THEN stuck_count_to_perturb_x + 1 ELSE sc

\* one pass of "while collision", and the two assignments after the loop when
\* the pass finds no collision
ColorAboveColorCollisionLoop ==
    /\ pc = "collision_loop"
    /\ LET index == locals.index_to_modify
           sc == locals.stuck_count + 1
       IN  \E rx \in Coords("x") :
           \E new_y \in locals.max_below_color_position..(max_coord("y") - 1) :
               LET new_x == NewAboveColorX(objects, index, sc, rx)
               IN  /\ locals' = [locals EXCEPT !.stuck_count = CountStuck(sc)]
                   /\ IF ObjectInPosition(objects, <<new_x, new_y>>)
                      THEN pc' = pc /\ UNCHANGED objects
                      ELSE pc' = "balanced" /\ objects' = MoveTo(objects, index, new_x, new_y)
    /\ UNCHANGED <<kind, passed, current_label, label, gen>>

ObjectCountBalanceCall ==
    /\ pc = "start"
    /\ kind.class = "ObjectCountRelation"
    /\ IF BalanceRaises(current_label)
       THEN pc' = "raised" /\ UNCHANGED <<objects, locals>>
       ELSE LET cfg == kind.kwargs
                n == Len(objects)
                first_object_count == Cardinality(FirstObjects(cfg, objects))
                second_object_count == Cardinality(SecondObjects(cfg, objects))
                full == (second_object_count = n)
            IN  \E num_second \in (IF full THEN 1..(n - 1) ELSE {0}) :
                \E second_indices \in Prefixes(SecondObjects(cfg, objects), num_second) :
                \E assign \in [second_indices -> NewAssignmentOptions(cfg)] :
                    LET reassigned == IF full THEN ReassignSecond(cfg, objects, assign)
                                      ELSE objects
                        min_objects == second_object_count - first_object_count + 1
                                           - num_second
                        max_objects == n - first_object_count
                        valid == (DOMAIN objects) \ FirstObjects(cfg, reassigned)
                    IN  IF min_objects <= 0
                        THEN /\ objects' = reassigned
                             /\ locals' = [locals EXCEPT
                                   !.num_second_objects_to_modify = num_second,
                                   !.second_object_indices_to_modify = second_indices,
                                   !.new_assignments = assign,
                                   !.min_objects_to_modify = min_objects]
                             /\ pc' = "balanced"
                        ELSE \E num \in min_objects..max_objects :
                             \E indices \in (IF Cardinality(valid) = 1 THEN {valid}
                                             ELSE Prefixes(valid, num)) :
                                /\ objects' = AssignFirst(cfg, reassigned, indices)
                                /\ locals' = [locals EXCEPT
                                      !.num_second_objects_to_modify = num_second,
                                      !.second_object_indices_to_modify = second_indices,
                                      !.new_assignments = assign,
                                      !.min_objects_to_modify = min_objects,
                                      !.num_objects_to_modify = num,
                                      !.indices_to_modify = indices]
                                /\ pc' = "balanced"
    /\ UNCHANGED <<kind, passed, current_label, label, gen>>

IdenticalObjectsBalanceCall ==
    /\ pc = "start"
    /\ kind.class = "IdenticalObjectsRelation"
    /\ IF BalanceRaises(current_label)
       THEN pc' = "raised" /\ UNCHANGED <<objects, locals>>
       ELSE \E p \in RandPermPairs(Len(objects)) :
               /\ objects' = IdenticalObjectsBalance(objects, p[1], p[2])
               /\ locals' = [locals EXCEPT !.index_to_modify = p[1],
                                           !.index_to_set_next_to = p[2]]
               /\ pc' = "balanced"
    /\ UNCHANGED <<kind, passed, current_label, label, gen>>

----------------------------------------------------------------------------
(* Specifications: one relation family each, on every scene *)

NextAdjacent == OneDAdjacentBalanceCall \/ MultipleDAdjacentBalanceCall \/ EvaluateCall

SpecAdjacent == InitRelation(AdjacentRelations) /\ [][NextAdjacent]_vars

NextColorAbove ==
    ColorAboveColorBalanceCall \/ ColorAboveColorCollisionLoop \/ EvaluateCall

SpecColorAbove == InitRelation(ColorAboveRelations) /\ [][NextColorAbove]_vars

NextObjectCount == ObjectCountBalanceCall \/ EvaluateCall

SpecObjectCount == InitRelation(ObjectCountRelations) /\ [][NextObjectCount]_vars

NextIdentical == IdenticalObjectsBalanceCall \/ EvaluateCall

SpecIdentical == InitRelation(IdenticalRelations) /\ [][NextIdentical]_vars

\* relation.balance(objects, current_label) of every relation class, up to its
\* first random draw of a position
NextBalance ==
    \/ OneDAdjacentBalanceCall
    \/ MultipleDAdjacentBalanceCall
    \/ ColorAboveColorBalanceCall
    \/ ObjectCountBalanceCall
    \/ IdenticalObjectsBalanceCall

SpecBalance == InitRelation(AllRelations) /\ [][NextBalance]_vars

\* the two balancers that write categorical fields, each run to its end
NextCategorical ==
    ColorAboveColorBalanceCall \/ ColorAboveColorCollisionLoop \/ ObjectCountBalanceCall

SpecCategorical ==
    InitRelation(ColorAboveRelations \cup ObjectCountRelations) /\ [][NextCategorical]_vars

----------------------------------------------------------------------------
(* ObjectGenerator and SmartBalancedBatchObjectGenerator (object_gen.py) *)

\* largest batch_size requested
MaxBatch == 3
\* max_recursion_depth, a constructor parameter (20 when not given)
max_recursion_depth == 2

negative_to_positive == TRUE

Obj(px, py, c, s) ==
    [x |-> px, y |-> py, color |-> OneHotTensor(c, n_types("color")),
     shape |-> OneHotTensor(s, n_types("shape"))]

\* the scenes the field generators of a generator of n objects draw in
\* generator runs: a few scenes of each label per relation, at and off the
\* edges of the position domain; every scene of a generator has n objects
Samples(k, n) ==
    LET drawn ==
    CASE k.class = "OneDAdjacentRelation" ->
            {<<Obj(0, 0, 0, 0), Obj(1, 0, 0, 0)>>,
             <<Obj(0, 0, 0, 0), Obj(2, 0, 0, 0)>>,
             <<Obj(1, 0, 0, 0), Obj(1, 0, 0, 0)>>}
      [] k.class = "MultipleDAdjacentRelation" ->
            {<<Obj(0, 0, 0, 0), Obj(0, 1, 0, 0)>>,
             <<Obj(0, 0, 0, 0), Obj(2, 1, 0, 0)>>,
             <<Obj(1, 0, 0, 0), Obj(1, 0, 0, 0)>>}
      [] k.class = "ColorAboveColorRelation" ->
            {<<Obj(0, 1, 0, 0), Obj(0, 0, 1, 0)>>,
             <<Obj(0, 0, 0, 0), Obj(0, 1, 1, 0)>>,
             <<Obj(0, 0, 1, 0), Obj(1, 1, 1, 0), Obj(1, 0, 2, 0)>>,
             <<Obj(0, 1, 0, 0), Obj(0, 0, 1, 0), Obj(1, 0, 2, 0)>>}
      [] k.class = "ObjectCountRelation" ->
            {<<Obj(0, 0, 0, 1), Obj(0, 0, 0, 2)>>,
             <<Obj(0, 0, 1, 0), Obj(0, 0, 1, 0)>>,
             <<Obj(0, 0, 0, 0), Obj(0, 0, 1, 1), Obj(0, 0, 2, 2)>>,
             <<Obj(0, 0, 0, 1), Obj(0, 0, 0, 1), Obj(0, 0, 1, 0)>>}
      [] k.class = "IdenticalObjectsRelation" ->
            {<<Obj(0, 0, 0, 0), Obj(0, 0, 1, 1)>>,
             <<Obj(0, 0, 0, 0), Obj(0, 0, 0, 0)>>,
             <<Obj(0, 0, 0, 1), Obj(0, 0, 1, 0), Obj(0, 0, 0, 1)>>,
             <<Obj(0, 0, 0, 0), Obj(0, 0, 1, 1), Obj(0, 0, 2, 2)>>}
    IN  {sample \in drawn : Len(sample) = n}

\* torch.tensor([relation.evaluate(batch_tensor[i]) ...], dtype=label_dtype)
LabelOf(k, objs) == IF Evaluate(k, objs) THEN 1 ELSE 0

BatchLabels(k, batch) == [i \in DOMAIN batch |-> LabelOf(k, batch[i])]

\* labels.bool() == b, as a set of slots
SlotsLabelled(labels, b) == {i \in DOMAIN labels : (labels[i] # 0) = b}

\* int(labels.sum())
PositiveCount(labels) == Cardinality(SlotsLabelled(labels, TRUE))

\* int(batch_size / 2)
HalfBatchSize(batch_size) == batch_size \div 2


\* RecursionDepthExceeded one round late
RecursionDepthExceededLate(depth) == depth > max_recursion_depth + 1

RecursionDepthExceeded(depth) == depth > max_recursion_depth


\* NumSamplesToModify one too many
NumSamplesToModifyPlusOne(positive_count, half_batch_size) ==
    Abs(positive_count - half_batch_size) + 1

NumSamplesToModify(positive_count, half_batch_size) == Abs(positive_count - half_batch_size)

\* indices[torch.randperm(len(indices))[:k]]: k distinct slots of S in any order
RECURSIVE Arrangements(_, _)
Arrangements(S, k) ==
    IF k = 0 \/ S = {} THEN {<<>>}
    ELSE UNION {{<<e>> \o t : t \in Arrangements(S \ {e}, k - 1)} : e \in S}

\* position of the call after positive_count has been compared with the half
Outcome(labels, batch_size) ==
    IF PositiveCount(labels) = HalfBatchSize(batch_size) THEN "returned" ELSE "while"

InitGen ==
    /\ kind \in AllRelations
    /\ objects = <<>>
    /\ passed = <<>>
    /\ current_label = 0
    /\ pc = "idle"
    /\ label = "none"
    /\ locals = NoLocals
    /\ \E b \in 1..MaxBatch : \E n \in {m \in 2..MaxObjects : Samples(kind, m) # {}} :
       \E depth \in 0..(max_recursion_depth + 1) :
          gen = [pc |-> "call", n |-> n, batch_size |-> b, recursion_depth |-> depth,
                 data |-> <<>>, labels |-> <<>>, draws |-> 0, rounds |-> 0,
                 target_indices |-> <<>>, modified |-> {}]

\* __call__ down to the first comparison of positive_count with the half
GenCall ==
    /\ gen.pc = "call"
    /\ IF gen.batch_size = 1
       THEN \E batch \in [1..1 -> Samples(kind, gen.n)] :
               gen' = [gen EXCEPT !.data = batch, !.labels = BatchLabels(kind, batch),
                                  !.draws = @ + 1, !.pc = "returned"]
       ELSE IF RecursionDepthExceeded(gen.recursion_depth)
       THEN gen' = [gen EXCEPT !.pc = "raised"]
       ELSE \E batch \in [1..gen.batch_size -> Samples(kind, gen.n)] :
               gen' = [gen EXCEPT !.data = batch, !.labels = BatchLabels(kind, batch),
                                  !.draws = @ + 1,
                                  !.pc = Outcome(BatchLabels(kind, batch), gen.batch_size)]
    /\ UNCHANGED <<kind, objects, passed, current_label, pc, label, locals>>

\* one pass of the while loop, taken while the surplus is on the side the
\* balancer cannot reduce
GenResample ==
    /\ gen.pc = "while"
    /\ (PositiveCount(gen.labels) > HalfBatchSize(gen.batch_size)) = negative_to_positive
    /\ IF RecursionDepthExceeded(gen.recursion_depth + 1)
       THEN gen' = [gen EXCEPT !.recursion_depth = @ + 1, !.pc = "raised"]
       ELSE LET indices_to_resample == SlotsLabelled(gen.labels, negative_to_positive)
            IN  \E resampled \in [indices_to_resample -> Samples(kind, gen.n)] :
                   LET new_data == [i \in DOMAIN gen.data |->
                                       IF i \in indices_to_resample THEN resampled[i]
                                       ELSE gen.data[i]]
                       new_labels == [i \in DOMAIN gen.labels |->
                                         IF i \in indices_to_resample
                                         THEN LabelOf(kind, resampled[i])
                                         ELSE gen.labels[i]]
                   IN  gen' = [gen EXCEPT !.recursion_depth = @ + 1,
                                          !.rounds = @ + 1, !.draws = @ + 1,
                                          !.data = new_data, !.labels = new_labels,
                                          !.pc = Outcome(new_labels, gen.batch_size)]
    /\ UNCHANGED <<kind, objects, passed, current_label, pc, label, locals>>

\* the while loop is left: the scenes to balance are chosen
GenChooseTargets ==
    /\ gen.pc = "while"
    /\ (PositiveCount(gen.labels) > HalfBatchSize(gen.batch_size)) # negative_to_positive
    /\ LET indices_to_modify == SlotsLabelled(gen.labels, ~negative_to_positive)
           num_samples_to_modify == NumSamplesToModify(PositiveCount(gen.labels),
                                                       HalfBatchSize(gen.batch_size))
       IN  \E target \in Arrangements(indices_to_modify, num_samples_to_modify) :
              gen' = [gen EXCEPT !.target_indices = target, !.pc = "for"]
    /\ UNCHANGED <<kind, objects, passed, current_label, pc, label, locals>>

\* for index in target_indices: relation.balance(data[index], not negative_to_positive)
GenBalanceNext ==
    /\ gen.pc = "for"
    /\ pc = "idle"
    /\ gen.target_indices # <<>>
    /\ objects' = gen.data[Head(gen.target_indices)]
    /\ passed' = gen.data[Head(gen.target_indices)]
    /\ current_label' = IF ~negative_to_positive THEN 1 ELSE 0
    /\ locals' = NoLocals
    /\ pc' = "start"
    /\ UNCHANGED <<kind, label, gen>>

\* balance returned: data[index] = ...; labels[index] = negative_to_positive
GenBalanceDone ==
    /\ gen.pc = "for"
    /\ pc = "balanced"
    /\ LET index == Head(gen.target_indices)
       IN  gen' = [gen EXCEPT !.data[index] = objects,
                              !.labels[index] = IF negative_to_positive THEN 1 ELSE 0,
                              !.modified = @ \cup {index},
                              !.target_indices = Tail(@)]
    /\ pc' = "idle"
    /\ UNCHANGED <<kind, objects, passed, current_label, label, locals>>

\* the for loop is over: return data, labels
GenReturn ==
    /\ gen.pc = "for"
    /\ pc = "idle"
    /\ gen.target_indices = <<>>
    /\ gen' = [gen EXCEPT !.pc = "returned"]
    /\ UNCHANGED <<kind, objects, passed, current_label, pc, label, locals>>

NextGen ==
    \/ GenCall
    \/ GenResample
    \/ GenChooseTargets
    \/ GenBalanceNext
    \/ OneDAdjacentBalanceCall
    \/ MultipleDAdjacentBalanceCall
    \/ ColorAboveColorBalanceCall
    \/ ColorAboveColorCollisionLoop
    \/ ObjectCountBalanceCall
    \/ IdenticalObjectsBalanceCall
    \/ GenBalanceDone
    \/ GenReturn

\* one call of the directed balanced generator, for every relation
SpecGen == InitGen /\ [][NextGen]_vars

\* the call keeps running: python is single-threaded and synchronous
SpecGenFair == SpecGen /\ WF_vars(NextGen)

----------------------------------------------------------------------------
(* BalancedBatchObjectGenerator (object_gen.py) *)

\* data[mask]: the scenes of batch at the slots of S, in slot order
RECURSIVE Masked(_, _)
Masked(batch, S) ==
    IF batch = <<>> THEN <<>>
    ELSE LET n == Len(batch)
             front == Masked(SubSeq(batch, 1, n - 1), S \ {n})
         IN  IF n \in S THEN Append(front, batch[n]) ELSE front

\* t[:k]
Truncate(t, k) == SubSeq(t, 1, IF k < Len(t) THEN k ELSE Len(t))

\* torch.randperm(n): the orderings of 0..n-1
RandPerm(n) ==
    {p \in [1..n -> 0..(n - 1)] : \A i \in 1..n : \A j \in 1..n : i # j => p[i] # p[j]}

\* torch.ones(k) followed by torch.zeros(k)
OnesThenZeros(k) == [i \in 1..(2 * k) |-> IF i <= k THEN 1 ELSE 0]

\* while negative_count < half_batch_size or positive_count < half_batch_size
AccumulationContinues(g) ==
    \/ g.negative_count < HalfBatchSize(g.batch_size)
    \/ g.positive_count < HalfBatchSize(g.batch_size)

InitBalancedBatch ==
    /\ kind \in AllRelations
    /\ objects = <<>>
    /\ passed = <<>>
    /\ current_label = 0
    /\ pc = "idle"
    /\ label = "none"
    /\ locals = NoLocals
    /\ \E b \in 1..MaxBatch : \E n \in {m \in 2..MaxObjects : Samples(kind, m) # {}} :
          gen = [pc |-> "call", n |-> n, batch_size |-> b,
                 positive_examples |-> <<>>, negative_examples |-> <<>>,
                 positive_count |-> 0, negative_count |-> 0,
                 data |-> <<>>, labels |-> <<>>]

\* __call__ down to the while loop; batch_size 1 is handed to ObjectGenerator
BalancedCall ==
    /\ gen.pc = "call"
    /\ IF gen.batch_size = 1
       THEN \E batch \in [1..1 -> Samples(kind, gen.n)] :
               gen' = [gen EXCEPT !.data = batch, !.labels = BatchLabels(kind, batch),
                                  !.pc = "returned"]
       ELSE gen' = [gen EXCEPT !.pc = "while"]
    /\ UNCHANGED <<kind, objects, passed, current_label, pc, label, locals>>

\* one pass of the while loop that draws batch
BalancedAccumulate(batch) ==
    /\ gen.pc = "while"
    /\ AccumulationContinues(gen)
    /\ LET labels == BatchLabels(kind, batch)
           positive_locations == SlotsLabelled(labels, TRUE)
           negative_locations == SlotsLabelled(labels, FALSE)
           batch_positive_count == PositiveCount(labels)
           take_positive == gen.positive_count < HalfBatchSize(gen.batch_size)
           take_negative == gen.negative_count < HalfBatchSize(gen.batch_size)
       IN  gen' = [gen EXCEPT
              !.positive_examples =
                  IF take_positive THEN @ \o Masked(batch, positive_locations) ELSE @,
              !.positive_count =
                  IF take_positive THEN @ + batch_positive_count ELSE @,
              !.negative_examples =
                  IF take_negative THEN @ \o Masked(batch, negative_locations) ELSE @,
              !.negative_count =
                  IF take_negative THEN @ + gen.batch_size - batch_positive_count ELSE @]
    /\ UNCHANGED <<kind, objects, passed, current_label, pc, label, locals>>

BalancedWhile == \E batch \in [1..gen.batch_size -> Samples(kind, gen.n)] : BalancedAccumulate(batch)

\* the loop is over: concatenate, truncate, permute. Indexing with an entry of
\* perm beyond the last row raises IndexError
BalancedPermute ==
    /\ gen.pc = "while"
    /\ ~AccumulationContinues(gen)
    /\ LET half_batch_size == HalfBatchSize(gen.batch_size)
           data == Truncate(gen.positive_examples, half_batch_size)
                       \o Truncate(gen.negative_examples, half_batch_size)
           labels == OnesThenZeros(half_batch_size)
       IN  \E perm \in RandPerm(gen.batch_size) :
              IF \E i \in DOMAIN perm : perm[i] + 1 > Len(data)
              THEN gen' = [gen EXCEPT !.pc = "index_error"]
              ELSE gen' = [gen EXCEPT
                      !.data = [i \in DOMAIN perm |-> data[perm[i] + 1]],
                      !.labels = [i \in DOMAIN perm |-> labels[perm[i] + 1]],
                      !.pc = "returned"]
    /\ UNCHANGED <<kind, objects, passed, current_label, pc, label, locals>>

NextBalancedBatch == BalancedCall \/ BalancedWhile \/ BalancedPermute

\* one call of the post-hoc balanced generator, for every relation
SpecBalancedBatch == InitBalancedBatch /\ [][NextBalancedBatch]_vars

\* passes of the while loop whose draw holds a scene labelled 1, and passes
\* whose draw holds a scene labelled 0
BalancedWhilePositive ==
    \E batch \in [1..gen.batch_size -> Samples(kind, gen.n)] :
        /\ PositiveCount(BatchLabels(kind, batch)) > 0
        /\ BalancedAccumulate(batch)

BalancedWhileNegative ==
    \E batch \in [1..gen.batch_size -> Samples(kind, gen.n)] :
        /\ PositiveCount(BatchLabels(kind, batch)) < gen.batch_size
        /\ BalancedAccumulate(batch)

\* the call keeps running, and a label the relation yields on drawn scenes
\* keeps being drawn
SpecBalancedBatchFair ==
    /\ SpecBalancedBatch
    /\ WF_vars(BalancedCall)
    /\ WF_vars(BalancedWhilePositive)
    /\ WF_vars(BalancedWhileNegative)
    /\ WF_vars(BalancedPermute)

----------------------------------------------------------------------------
(* QuinnDatasetGenerator and its subclasses (quinn_objects.py): construction *)

\* Python's None; an optional value v is <<v>>, a proportion is <<num, den>>
None == <<>>

\* largest canvas width and height a builder is constructed with
MaxXMax == 5
MaxYMax == 8
\* largest number of candidate reference locations of a constructed builder
MaxCandidates == 5

\* range(a, b)
Range(a, b) == a..(b - 1)

IsReferenceInductiveBias(class) ==
    class \in {"AboveBelowReferenceInductiveBias", "BetweenReferenceInductiveBias"}

\* self.two_reference_objects: between_relation when the argument is None
two_reference_objects(k) ==
    IF k.kwargs.two_reference_objects = None THEN k.kwargs.between_relation
    ELSE k.kwargs.two_reference_objects[1]

\* the margins QuinnDatasetGenerator.__init__ receives from the subclass
\* constructors
XMargin(k) ==
    IF k.kwargs.reference_object_x_margin = None THEN 0
    ELSE k.kwargs.reference_object_x_margin[1]

YMarginBottom(k) ==
    LET m == k.kwargs.reference_object_y_margin_bottom
    IN  IF IsReferenceInductiveBias(k.class)
        THEN IF m = None THEN k.kwargs.target_object_grid_size
             ELSE IF m[1] < k.kwargs.target_object_grid_size
                  THEN k.kwargs.target_object_grid_size ELSE m[1]
        ELSE IF m = None THEN 0 ELSE m[1]

YMarginTop(k) ==
    LET m == k.kwargs.reference_object_y_margin_top
        g == k.kwargs.target_object_grid_size
        min_y_margin == 2 * g + 1
        between == IF k.class = "BetweenReferenceInductiveBias"
                   THEN IF m = None THEN min_y_margin
                        ELSE IF m[1] < min_y_margin THEN min_y_margin ELSE m[1]
                   ELSE IF m = None THEN -1 ELSE m[1]
    IN  IF IsReferenceInductiveBias(k.class)
        THEN IF between < g THEN g ELSE between
        ELSE IF m = None THEN k.kwargs.target_object_grid_height + 1
                                 + (IF two_reference_objects(k) THEN 1 ELSE 0)
             ELSE IF m[1] < k.kwargs.target_object_grid_height
                  THEN k.kwargs.target_object_grid_height + 1
                           + (IF two_reference_objects(k) THEN 1 ELSE 0)
                  ELSE m[1]

\* itertools.product of the two ranges of reference locations
possible_reference_object_locations(k) ==
    Range(XMargin(k),
          k.kwargs.x_max - XMargin(k) - k.kwargs.reference_object_length)
    \X Range(YMarginBottom(k), k.kwargs.y_max - YMarginTop(k))

\* len(items[:k])
SliceCount(n, k) ==
    IF k >= 0 THEN (IF k < n THEN k ELSE n)
    ELSE (IF n + k > 0 THEN n + k ELSE 0)

\* MaxTrainIndex rounding up
MaxTrainIndexCeil(n, prop_train) == (n * prop_train[1] + prop_train[2] - 1) \div prop_train[2]

\* int(np.floor(len(items) * prop_train))
MaxTrainIndex(n, prop_train) == (n * prop_train[1]) \div prop_train[2]

\* _split_train_test after the argument check: rng.shuffle(items), then
\* items[:max_train_index], items[max_train_index:]. The order inside each
\* part only fixes the order of the scenes of a dataset: the parts are sets
SplitTrainTest(items, prop_train, max_train_index) ==
    LET index == IF max_train_index = None
                 THEN MaxTrainIndex(Cardinality(items), prop_train)
                 ELSE max_train_index[1]
        count == SliceCount(Cardinality(items), index)
    IN  {[items |-> items, prop_train |-> prop_train, max_train_index |-> max_train_index,
          train |-> T, test |-> items \ T] :
            T \in {S \in SUBSET items : Cardinality(S) = count}}

\* ReferenceInductiveBias.__init__: the grid of target-relative locations
possible_target_object_locations(k) ==
    Range(0, k.kwargs.target_object_grid_size)
    \X Range(1, k.kwargs.target_object_grid_size + 1)

n_train_target_object_locations(k) ==
    IF k.kwargs.n_train_target_object_locations = None
    THEN k.kwargs.target_object_grid_size * (k.kwargs.target_object_grid_size - 1)
    ELSE k.kwargs.n_train_target_object_locations[1]

\* middle_target_object_locations starting at the reference object's first
\* column
middle_target_object_locations_from_zero(k) ==
    Range(0, k.kwargs.reference_object_length - k.kwargs.target_object_grid_size)
    \X Range(1, k.kwargs.target_object_grid_size + 1)

middle_target_object_locations(k) ==
    Range(k.kwargs.target_object_grid_size,
          k.kwargs.reference_object_length - k.kwargs.target_object_grid_size)
    \X Range(1, k.kwargs.target_object_grid_size + 1)

\* OneOrTwoReferenceObjects.__init__: the heights of the reference rows
single_reference_height(k) == k.kwargs.target_object_grid_height \div 2
bottom_reference_height(k) == k.kwargs.target_object_grid_height \div 4
top_reference_height(k) == (k.kwargs.target_object_grid_height * 3) \div 4

\* _generate_and_split_target_object_locations: all_locations, one set of
\* target-relative locations per vertical band
BandLocations(k) ==
    LET x_range == Range(0, k.kwargs.reference_object_length)
        y_ranges == IF two_reference_objects(k)
                    THEN <<Range(0, bottom_reference_height(k)),
                           Range(bottom_reference_height(k), top_reference_height(k)),
                           Range(top_reference_height(k), k.kwargs.target_object_grid_height)>>
                    ELSE <<Range(0, single_reference_height(k)),
                           Range(single_reference_height(k), k.kwargs.target_object_grid_height)>>
    IN  [b \in DOMAIN y_ranges |-> x_range \X y_ranges[b]]

\* the sequences that take their i-th entry from the i-th set of ss
RECURSIVE SeqProduct(_)
SeqProduct(ss) ==
    IF Len(ss) = 0 THEN {<<>>}
    ELSE {<<h>> \o t : h \in ss[1], t \in SeqProduct(SubSeq(ss, 2, Len(ss)))}

\* the outcomes of splitting every band by the target proportion
BandSplits(k) ==
    LET bands == BandLocations(k)
    IN  SeqProduct([b \in DOMAIN bands |->
            SplitTrainTest(bands[b], k.kwargs.prop_train_target_object_locations, None)])

\* the arguments of a builder: the defaults of the three signatures; x_max,
\* y_max and reference_object_length have no default and are set by every
\* kind; seed has no default either, the run script passes DEFAULT_SEED
DefaultBuilderKwargs ==
    [x_max |-> 5, y_max |-> 8, reference_object_length |-> 1, seed |-> 33,
     target_object_grid_size |-> 3, target_object_grid_height |-> 8,
     between_relation |-> FALSE, two_reference_objects |-> None,
     above_or_between_left |-> None, n_train_target_object_locations |-> None,
     prop_train_reference_object_locations |-> <<4, 5>>,
     prop_train_target_object_locations |-> <<1, 2>>,
     reference_object_x_margin |-> <<0>>,
     reference_object_y_margin_bottom |-> None, reference_object_y_margin_top |-> None,
     add_neither_train |-> TRUE, add_neither_test |-> FALSE,
     prop_train_to_validation |-> <<1, 10>>]

\* self.above_or_between_left, as the branches test it: seed % 2 when the
\* argument is None
above_or_between_left(k) ==
    IF k.kwargs.above_or_between_left = None THEN k.kwargs.seed % 2 # 0
    ELSE k.kwargs.above_or_between_left[1]

\* the largest set of locations one _split_train_test call of the builder gets
LargestSplit(k) ==
    LET sizes == {Cardinality(possible_reference_object_locations(k))}
                 \cup (IF IsReferenceInductiveBias(k.class)
                       THEN {Cardinality(possible_target_object_locations(k))}
                       ELSE {Cardinality(BandLocations(k)[b]) : b \in DOMAIN BandLocations(k)})
    IN  SetMax(sizes)

\* the builders constructed: every canvas up to MaxXMax by MaxYMax, short
\* reference objects, small grids, with and without margins
ReferenceInductiveBiasKinds ==
    {[class |-> c,
      kwargs |-> [DefaultBuilderKwargs EXCEPT
                    !.x_max = xm, !.y_max = ym, !.reference_object_length = len,
                    !.target_object_grid_size = g,
                    !.n_train_target_object_locations = n,
                    !.reference_object_x_margin = margin]] :
        c \in {"AboveBelowReferenceInductiveBias", "BetweenReferenceInductiveBias"},
        xm \in 1..MaxXMax, ym \in 1..MaxYMax, len \in 1..3, g \in 1..2,
        n \in {None, <<1>>}, margin \in {None, <<1>>}}

OneOrTwoReferenceObjectsKinds ==
    {[class |-> "OneOrTwoReferenceObjects",
      kwargs |-> [DefaultBuilderKwargs EXCEPT
                    !.x_max = xm, !.y_max = ym, !.reference_object_length = len,
                    !.target_object_grid_height = h,
                    !.between_relation = two,
                    !.reference_object_x_margin = margin]] :
        xm \in 1..MaxXMax, ym \in 1..MaxYMax, len \in 1..3, h \in {4, 6},
        two \in BOOLEAN, margin \in {None, <<1>>}}

BuilderKinds ==
    {k \in ReferenceInductiveBiasKinds \cup OneOrTwoReferenceObjectsKinds :
        LargestSplit(k) <= MaxCandidates}

\* before the constructor runs
InitBuilder(kinds) ==
    /\ kind \in kinds
    /\ objects = <<>>
    /\ passed = <<>>
    /\ current_label = 0
    /\ pc = "idle"
    /\ label = "none"
    /\ locals = NoLocals
    /\ gen = [pc |-> "new", rng_calls |-> 0]

Getters == {"get_training_dataset", "get_validation_dataset", "get_test_datasets"}

\* the fields __init__ leaves on the builder; rng_calls counts the calls made
\* on self.rng, splits lists the _split_train_test calls with what they
\* returned. next_id numbers the dataset objects created, the two counters
\* count the executions of _create_training_dataset and _create_test_datasets,
\* validation_split keeps the indices of the last _split_dataset call.
\* first_returned is the object each getter returned to its first call (the
\* object's id, 0 for None, -1 before the first call); last_call is the latest
\* getter call that returned: the object it returned, whether the getter had
\* been called before, and rng_calls when it was entered
Constructed(k, reference_split, target_splits, train_targets, test_targets) ==
    [pc |-> "constructed",
     rng_calls |-> 1 + Len(target_splits),
     splits |-> <<reference_split>> \o target_splits,
     train_reference_object_locations |-> reference_split.train,
     test_reference_object_locations |-> reference_split.test,
     train_target_object_locations |-> train_targets,
     test_target_object_locations |-> test_targets,
     train_dataset |-> None, validation_dataset |-> None, test_datasets |-> None,
     next_id |-> 1, create_training_calls |-> 0, create_test_calls |-> 0,
     validation_split |-> None,
     first_returned |-> [getter \in Getters |-> -1],
     last_call |-> [getter |-> "none", returned |-> 0, repeated |-> FALSE,
                    rng_calls_before |-> 0]]

\* __init__ of a ReferenceInductiveBias subclass
ReferenceInductiveBiasInit ==
    /\ gen.pc = "new"
    /\ IsReferenceInductiveBias(kind.class)
    /\ \E reference_split \in SplitTrainTest(possible_reference_object_locations(kind),
                 kind.kwargs.prop_train_reference_object_locations, None) :
       \E target_split \in SplitTrainTest(possible_target_object_locations(kind),
                 None, <<n_train_target_object_locations(kind)>>) :
          gen' = Constructed(kind, reference_split, <<target_split>>,
                             target_split.train, target_split.test)
    /\ UNCHANGED <<kind, objects, passed, current_label, pc, label, locals>>

\* OneOrTwoReferenceObjects.__init__
OneOrTwoReferenceObjectsInit ==
    /\ gen.pc = "new"
    /\ kind.class = "OneOrTwoReferenceObjects"
    /\ IF kind.kwargs.target_object_grid_height % 4 # 0
       THEN gen' = [pc |-> "raised", rng_calls |-> 0, error |-> "ValueError"]
       ELSE \E reference_split \in SplitTrainTest(possible_reference_object_locations(kind),
                    kind.kwargs.prop_train_reference_object_locations, None) :
            \E band_splits \in BandSplits(kind) :
               gen' = Constructed(kind, reference_split, band_splits,
                         UNION {band_splits[b].train : b \in DOMAIN band_splits},
                         UNION {band_splits[b].test : b \in DOMAIN band_splits})
    /\ UNCHANGED <<kind, objects, passed, current_label, pc, label, locals>>

NextConstruct == ReferenceInductiveBiasInit \/ OneOrTwoReferenceObjectsInit

\* construction of every builder of BuilderKinds
SpecConstruct == InitBuilder(BuilderKinds) /\ [][NextConstruct]_vars

----------------------------------------------------------------------------
(* QuinnDatasetGenerator and its subclasses: the scenes of a dataset *)

TRAIN_REFERENCE_TEST_TARGET == "train_reference_test_target"
TRAIN_REFERENCE_MIDDLE_TARGET == "train_reference_middle_target"
TEST_REFERENCE_TRAIN_TARGET == "test_reference_train_target"
TEST_REFERENCE_TEST_TARGET == "test_reference_test_target"
TEST_REFERENCE_MIDDLE_TARGET == "test_reference_middle_target"

\* a + b on locations
Plus(a, b) == <<a[1] + b[1], a[2] + b[2]>>

\* the locations of a set in x-major order: the order a list of locations has
\* only fixes the order of the scenes
RECURSIVE Ordered(_)
Ordered(S) ==
    IF S = {} THEN <<>>
    ELSE LET first == CHOOSE a \in S : \A b \in S \ {a} :
                          a[1] < b[1] \/ (a[1] = b[1] /\ a[2] < b[2])
         IN  <<first>> \o Ordered(S \ {first})

\* the concatenation of a sequence of sequences
RECURSIVE Flatten(_)
Flatten(ss) == IF ss = <<>> THEN <<>> ELSE Head(ss) \o Flatten(Tail(ss))

\* one appended example: create_input(target, *references, train=train) and
\* its label, with the loop variables it was computed from (target_location is
\* None in a neither scene)
Scene(target, references, lbl, train, reference_location, target_location) ==
    [target |-> target, references |-> references, label |-> lbl, train |-> train,
     reference_location |-> reference_location, target_location |-> target_location]

BoolInt(b) == IF b THEN 1 ELSE 0

AddNeither(k, train) ==
    IF train THEN k.kwargs.add_neither_train ELSE k.kwargs.add_neither_test

\* valid_x_locations that keeps the columns of the reference object
valid_x_locations_whole_canvas(k, reference_location) == Range(0, k.kwargs.x_max)

\* valid_x_locations of a reference location
valid_x_locations(k, reference_location) ==
    Range(0, reference_location[1])
    \cup Range(reference_location[1] + k.kwargs.reference_object_length, k.kwargs.x_max)

\* the values np.stack([neither_x_locations, neither_y_locations]).T can take:
\* count locations per reference location, each x drawn from the valid x
\* locations and each y from range(y_max)
NeitherDraws(k, R, count) ==
    LET cells(i) == valid_x_locations(k, R[i]) \X Range(0, k.kwargs.y_max)
    IN  SeqProduct([i \in DOMAIN R |-> [1..count -> cells(i)]])

\* rng.choice(valid_x_locations, count) raises ValueError on an empty list
\* unless count is 0
NeitherChoiceRaises(k, R, count) ==
    count > 0 /\ \E i \in DOMAIN R : valid_x_locations(k, R[i]) = {}

\* how many reference locations can precede, in the list the builder holds,
\* the first one without a valid x location: the lists are shuffled by
\* _split_train_test and held here as sets, so any number of the locations
\* that have a valid x location
LocationsBeforeRaise(k, R) ==
    0..Cardinality({i \in DOMAIN R : valid_x_locations(k, R[i]) # {}})

\* what a dataset method returns: _create_dataset(objects, labels) raises in
\* torch.stack when objects is empty
Created(scenes, rng_calls) ==
    IF scenes = <<>> THEN [error |-> "RuntimeError", scenes |-> <<>>, rng_calls |-> rng_calls]
    ELSE [error |-> "none", scenes |-> scenes, rng_calls |-> rng_calls]

CreationRaised(rng_calls) == [error |-> "ValueError", scenes |-> <<>>, rng_calls |-> rng_calls]

\* target_y_below
YBelow(target_location) == Plus(target_location, <<0, -4>>)

\* AboveBelowReferenceInductiveBias._create_left_right_dataset: the possible
\* results
AboveBelowLeftRight(k, reference_locations, target_locations, train) ==
    LET R == Ordered(reference_locations)
        T == Ordered(target_locations)
        add_neither == AddNeither(k, train)
        reference_end(i) == Plus(R[i], <<k.kwargs.reference_object_length
                                            - k.kwargs.target_object_grid_size, 0>>)
        pair(i, j) ==
            IF above_or_between_left(k)
            THEN <<Scene(Plus(R[i], T[j]), <<R[i]>>, 0 + BoolInt(add_neither), train, R[i], T[j]),
                   Scene(Plus(reference_end(i), YBelow(T[j])), <<R[i]>>,
                         1 + BoolInt(add_neither), train, R[i], T[j])>>
            ELSE <<Scene(Plus(reference_end(i), T[j]), <<R[i]>>, 0 + BoolInt(add_neither), train, R[i], T[j]),
                   Scene(Plus(R[i], YBelow(T[j])), <<R[i]>>,
                         1 + BoolInt(add_neither), train, R[i], T[j])>>
        neither(i, locs) == [n \in DOMAIN locs |-> Scene(locs[n], <<R[i]>>, 0, train, R[i], None)]
        block(i, locs) == Flatten([j \in DOMAIN T |-> pair(i, j)]) \o neither(i, locs)
    IN  IF ~add_neither
        THEN {Created(Flatten([i \in DOMAIN R |-> block(i, <<>>)]), 0)}
        ELSE IF NeitherChoiceRaises(k, R, Len(T))
        THEN {CreationRaised(2 * before) : before \in LocationsBeforeRaise(k, R)}
        ELSE {Created(Flatten([i \in DOMAIN R |-> block(i, draws[i])]), 2 * Len(R)) :
                 draws \in NeitherDraws(k, R, Len(T))}

\* AboveBelowReferenceInductiveBias._create_middle_dataset
AboveBelowMiddle(k, reference_locations, middle_locations) ==
    LET R == Ordered(reference_locations)
        M == Ordered(middle_locations)
        pair(i, j) ==
            <<Scene(Plus(R[i], M[j]), <<R[i]>>, 0 + BoolInt(k.kwargs.add_neither_train),
                    FALSE, R[i], M[j]),
              Scene(Plus(R[i], YBelow(M[j])), <<R[i]>>, 1 + BoolInt(k.kwargs.add_neither_train),
                    FALSE, R[i], M[j])>>
    IN  {Created(Flatten([i \in DOMAIN R |-> Flatten([j \in DOMAIN M |-> pair(i, j)])]), 0)}

\* the values the rng.uniform() < 0.5 tests of one call can take
CoinDraws(R, T) == [(DOMAIN R) \X (DOMAIN T) -> BOOLEAN]

\* BetweenReferenceInductiveBias._create_left_right_dataset
BetweenLeftRight(k, reference_locations, target_locations, train) ==
    LET R == Ordered(reference_locations)
        T == Ordered(target_locations)
        add_neither == AddNeither(k, train)
        to_end == <<k.kwargs.reference_object_length - k.kwargs.target_object_grid_size, 0>>
        bottom_reference_end(i) == Plus(R[i], to_end)
        top_reference_location(i) == Plus(R[i], <<0, k.kwargs.target_object_grid_size + 1>>)
        top_reference_end(i) == Plus(top_reference_location(i), to_end)
        references(i) == <<R[i], top_reference_location(i)>>
        pair(i, j, coin) ==
            IF above_or_between_left(k)
            THEN <<Scene(IF coin THEN Plus(top_reference_end(i), T[j])
                         ELSE Plus(bottom_reference_end(i), YBelow(T[j])),
                         references(i), 0 + BoolInt(add_neither), train, R[i], T[j]),
                   Scene(Plus(R[i], T[j]), references(i),
                         1 + BoolInt(add_neither), train, R[i], T[j])>>
            ELSE <<Scene(IF coin THEN Plus(top_reference_location(i), T[j])
                         ELSE Plus(R[i], YBelow(T[j])),
                         references(i), 0 + BoolInt(add_neither), train, R[i], T[j]),
                   Scene(Plus(bottom_reference_end(i), T[j]), references(i),
                         1 + BoolInt(add_neither), train, R[i], T[j])>>
        neither(i, locs) ==
            [n \in DOMAIN locs |-> Scene(locs[n], references(i), 0, train, R[i], None)]
        block(i, coins, locs) ==
            Flatten([j \in DOMAIN T |-> pair(i, j, coins[<<i, j>>])]) \o neither(i, locs)
        uniform_calls == Len(R) * Len(T)
    IN  IF ~add_neither
        THEN {Created(Flatten([i \in DOMAIN R |-> block(i, coins, <<>>)]), uniform_calls) :
                 coins \in CoinDraws(R, T)}
        ELSE IF NeitherChoiceRaises(k, R, Len(T))
        THEN {CreationRaised((Len(T) + 2) * before + Len(T)) :
                 before \in LocationsBeforeRaise(k, R)}
        ELSE {Created(Flatten([i \in DOMAIN R |-> block(i, d[1], d[2][i])]),
                      uniform_calls + 2 * Len(R)) :
                 d \in CoinDraws(R, T) \X NeitherDraws(k, R, Len(T))}

\* BetweenReferenceInductiveBias._create_middle_dataset
BetweenMiddle(k, reference_locations, middle_locations) ==
    LET R == Ordered(reference_locations)
        M == Ordered(middle_locations)
        top_reference_location(i) == Plus(R[i], <<0, k.kwargs.target_object_grid_size + 1>>)
        references(i) == <<R[i], top_reference_location(i)>>
        neither_train == BoolInt(k.kwargs.add_neither_train)
        triple(i, j) ==
            <<Scene(Plus(top_reference_location(i), M[j]), references(i),
                    0 + neither_train, FALSE, R[i], M[j]),
              Scene(Plus(R[i], YBelow(M[j])), references(i),
                    0 + neither_train, FALSE, R[i], M[j]),
              Scene(Plus(R[i], M[j]), references(i),
                    1 + neither_train, FALSE, R[i], M[j])>>
    IN  {Created(Flatten([i \in DOMAIN R |-> Flatten([j \in DOMAIN M |-> triple(i, j)])]), 0)}

\* AboveSingleReference that leaves the reference row itself below
AboveSingleReferenceStrict(k, rel_target_location) ==
    rel_target_location[2] > single_reference_height(k)

\* if rel_target_location[1] >= self.single_reference_height:  # above
AboveSingleReference(k, rel_target_location) ==
    rel_target_location[2] >= single_reference_height(k)

\* OneOrTwoReferenceObjects._create_single_dataset
OneOrTwoSingle(k, reference_locations, target_locations, train) ==
    LET R == Ordered(reference_locations)
        T == Ordered(target_locations)
        add_neither == AddNeither(k, train)
        two == two_reference_objects(k)
        bottom_reference_location(i) == Plus(R[i], <<0, bottom_reference_height(k)>>)
        top_reference_location(i) == Plus(R[i], <<0, top_reference_height(k) + 1>>)
        reference_location(i) == Plus(R[i], <<0, single_reference_height(k)>>)
        labelled(i, j) ==
            IF two
            THEN IF T[j][2] >= top_reference_height(k)
                 THEN Scene(Plus(Plus(R[i], T[j]), <<0, 2>>),
                            <<bottom_reference_location(i), top_reference_location(i)>>,
                            0 + BoolInt(add_neither), train, R[i], T[j])
                 ELSE IF T[j][2] >= bottom_reference_height(k)
                 THEN Scene(Plus(Plus(R[i], T[j]), <<0, 1>>),
                            <<bottom_reference_location(i), top_reference_location(i)>>,
                            1 + BoolInt(add_neither), train, R[i], T[j])
                 ELSE Scene(Plus(R[i], T[j]),
                            <<bottom_reference_location(i), top_reference_location(i)>>,
                            0 + BoolInt(add_neither), train, R[i], T[j])
            ELSE IF AboveSingleReference(k, T[j])
                 THEN Scene(Plus(Plus(R[i], T[j]), <<0, 1>>), <<reference_location(i)>>,
                            1 + BoolInt(add_neither), train, R[i], T[j])
                 ELSE Scene(Plus(R[i], T[j]), <<reference_location(i)>>,
                            0 + BoolInt(add_neither), train, R[i], T[j])
        total_target_locations == Len(T) \div 2
        neither(i, locs) ==
            [n \in DOMAIN locs |->
                IF two
                THEN Scene(locs[n],
                           <<bottom_reference_location(i),
                             Plus(R[i], <<0, top_reference_height(k)>>)>>,
                           0, train, R[i], None)
                ELSE Scene(locs[n], <<reference_location(i)>>, 0, train, R[i], None)]
        all_labelled == Flatten([i \in DOMAIN R |-> [j \in DOMAIN T |-> labelled(i, j)]])
    IN  IF ~add_neither
        THEN {Created(all_labelled, 0)}
        ELSE IF NeitherChoiceRaises(k, R, total_target_locations)
        THEN {CreationRaised(2 * before) : before \in LocationsBeforeRaise(k, R)}
        ELSE {Created(all_labelled \o Flatten([i \in DOMAIN R |-> neither(i, draws[i])]),
                      2 * Len(R)) :
                 draws \in NeitherDraws(k, R, total_target_locations)}

\* _create_left_right_dataset and _create_middle_dataset of the builder's class
LeftRightDataset(k, reference_locations, target_locations, train) ==
    IF k.class = "AboveBelowReferenceInductiveBias"
    THEN AboveBelowLeftRight(k, reference_locations, target_locations, train)
    ELSE BetweenLeftRight(k, reference_locations, target_locations, train)

MiddleDataset(k, reference_locations, middle_locations) ==
    IF k.class = "AboveBelowReferenceInductiveBias"
    THEN AboveBelowMiddle(k, reference_locations, middle_locations)
    ELSE BetweenMiddle(k, reference_locations, middle_locations)

\* CreateTrainingDataset handing the test target subset to the dataset method
CreateTrainingDatasetOnTestTargets(k, g) ==
    IF IsReferenceInductiveBias(k.class)
    THEN LeftRightDataset(k, g.train_reference_object_locations,
                          g.test_target_object_locations, TRUE)
    ELSE OneOrTwoSingle(k, g.train_reference_object_locations,
                        g.test_target_object_locations, TRUE)

\* _create_training_dataset of the builder's class, on the builder's fields g
CreateTrainingDataset(k, g) ==
    IF IsReferenceInductiveBias(k.class)
    THEN LeftRightDataset(k, g.train_reference_object_locations,
                          g.train_target_object_locations, TRUE)
    ELSE OneOrTwoSingle(k, g.train_reference_object_locations,
                        g.train_target_object_locations, TRUE)

\* _create_test_datasets: the named conditions in the order they are created,
\* each with its possible results
TestConditions(k, g) ==
    IF IsReferenceInductiveBias(k.class)
    THEN <<[name |-> TRAIN_REFERENCE_TEST_TARGET,
            results |-> LeftRightDataset(k, g.train_reference_object_locations,
                                         g.test_target_object_locations, FALSE)],
           [name |-> TRAIN_REFERENCE_MIDDLE_TARGET,
            results |-> MiddleDataset(k, g.train_reference_object_locations,
                                      middle_target_object_locations(k))],
           [name |-> TEST_REFERENCE_TRAIN_TARGET,
            results |-> LeftRightDataset(k, g.test_reference_object_locations,
                                         g.train_target_object_locations, FALSE)],
           [name |-> TEST_REFERENCE_TEST_TARGET,
            results |-> LeftRightDataset(k, g.test_reference_object_locations,
                                         g.test_target_object_locations, FALSE)],
           [name |-> TEST_REFERENCE_MIDDLE_TARGET,
            results |-> MiddleDataset(k, g.test_reference_object_locations,
                                      middle_target_object_locations(k))]>>
    ELSE <<[name |-> TRAIN_REFERENCE_TEST_TARGET,
            results |-> OneOrTwoSingle(k, g.train_reference_object_locations,
                                       g.test_target_object_locations, FALSE)],
           [name |-> TEST_REFERENCE_TRAIN_TARGET,
            results |-> OneOrTwoSingle(k, g.test_reference_object_locations,
                                       g.train_target_object_locations, FALSE)],
           [name |-> TEST_REFERENCE_TEST_TARGET,
            results |-> OneOrTwoSingle(k, g.test_reference_object_locations,
                                       g.test_target_object_locations, FALSE)]>>

\* the keys of the dictionary _create_test_datasets returns, in the order they
\* are set
TestConditionNames(k) ==
    IF IsReferenceInductiveBias(k.class)
    THEN <<TRAIN_REFERENCE_TEST_TARGET, TRAIN_REFERENCE_MIDDLE_TARGET,
           TEST_REFERENCE_TRAIN_TARGET, TEST_REFERENCE_TEST_TARGET,
           TEST_REFERENCE_MIDDLE_TARGET>>
    ELSE <<TRAIN_REFERENCE_TEST_TARGET, TEST_REFERENCE_TRAIN_TARGET,
           TEST_REFERENCE_TEST_TARGET>>

\* the calls made on self.rng by a sequence of dataset creations
RECURSIVE TotalRngCalls(_)
TotalRngCalls(results) ==
    IF results = <<>> THEN 0
    ELSE Head(results).rng_calls + TotalRngCalls(Tail(results))

\* one result per condition
CreateTestDatasets(k, g) ==
    LET conditions == TestConditions(k, g)
    IN  SeqProduct([c \in DOMAIN conditions |-> conditions[c].results])

\* prop_train_to_validation is not None and prop_train_to_validation > 0
SplitsValidation(k) ==
    /\ k.kwargs.prop_train_to_validation # None
    /\ k.kwargs.prop_train_to_validation[1] > 0

\* SplitIndex of the validation proportion instead of its complement
SplitIndexOfValidation(n, prop_train_to_validation) ==
    (n * prop_train_to_validation[1]) \div prop_train_to_validation[2]

\* int(np.floor(len(dataset) * (1 - prop_train_to_validation)))
SplitIndex(n, prop_train_to_validation) ==
    (n * (prop_train_to_validation[2] - prop_train_to_validation[1]))
        \div prop_train_to_validation[2]

\* dataset.objects[split]: the examples at the indices of split
Examples(scenes, split) == Masked(scenes, split)

\* TrainDatasetIsNone of a getter that never looks at the cached dataset
TrainDatasetIsNoneAlways(g) == TRUE

\* self.train_dataset is None
TrainDatasetIsNone(g) == g.train_dataset = None

\* the body of get_training_dataset on the builder g: the builders it can leave
GetTrainingDatasetBody(k, g) ==
    IF ~TrainDatasetIsNone(g) THEN {g}
    ELSE UNION {
        IF out.error # "none"
        THEN {[g EXCEPT !.pc = "raised",
                        !.create_training_calls = @ + 1,
                        !.rng_calls = @ + out.rng_calls]}
        ELSE IF ~SplitsValidation(k)
        THEN {[g EXCEPT !.train_dataset = [id |-> g.next_id, scenes |-> out.scenes],
                        !.next_id = @ + 1,
                        !.create_training_calls = @ + 1,
                        !.rng_calls = @ + out.rng_calls]}
        ELSE LET n == Len(out.scenes)
                 split_index == SplitIndex(n, k.kwargs.prop_train_to_validation)
             IN  {[g EXCEPT
                     !.train_dataset = [id |-> g.next_id + 1,
                                        scenes |-> Examples(out.scenes, first_split)],
                     !.validation_dataset = [id |-> g.next_id + 2,
                                             scenes |-> Examples(out.scenes, (1..n) \ first_split)],
                     !.validation_split = [unsplit |-> [id |-> g.next_id, scenes |-> out.scenes],
                                           first_split |-> first_split,
                                           second_split |-> (1..n) \ first_split],
                     !.next_id = @ + 3,
                     !.create_training_calls = @ + 1,
                     !.rng_calls = @ + out.rng_calls + 1] :
                  first_split \in {S \in SUBSET (1..n) : Cardinality(S) = split_index}}
        : out \in CreateTrainingDataset(k, g)}

\* the getter called on the builder before leaves it as g and hands object to
\* its caller; an exception ends the caller's run
Returned(before, g, getter, object) ==
    IF g.pc = "raised" THEN g
    ELSE LET id == IF object = None THEN 0 ELSE object.id
         IN  [g EXCEPT !.first_returned[getter] = IF @ = -1 THEN id ELSE @,
                       !.last_call = [getter |-> getter, returned |-> id,
                                      repeated |-> before.first_returned[getter] # -1,
                                      rng_calls_before |-> before.rng_calls]]

get_training_dataset ==
    /\ gen.pc = "constructed"
    /\ \E g \in GetTrainingDatasetBody(kind, gen) :
          gen' = Returned(gen, g, "get_training_dataset", g.train_dataset)
    /\ UNCHANGED <<kind, objects, passed, current_label, pc, label, locals>>

get_validation_dataset ==
    /\ gen.pc = "constructed"
    /\ IF gen.validation_dataset # None
       THEN gen' = Returned(gen, gen, "get_validation_dataset", gen.validation_dataset)
       ELSE IF SplitsValidation(kind)
       THEN \E g \in GetTrainingDatasetBody(kind, gen) :
               gen' = Returned(gen, g, "get_validation_dataset", g.validation_dataset)
       ELSE gen' = Returned(gen, gen, "get_validation_dataset", gen.validation_dataset)
    /\ UNCHANGED <<kind, objects, passed, current_label, pc, label, locals>>

get_test_datasets ==
    /\ gen.pc = "constructed"
    /\ IF gen.test_datasets # None
       THEN gen' = Returned(gen, gen, "get_test_datasets", gen.test_datasets)
       ELSE \E results \in CreateTestDatasets(kind, gen) :
               LET names == TestConditionNames(kind)
                   failed == {c \in DOMAIN results : results[c].error # "none"}
                   last == IF failed = {} THEN Len(results)
                           ELSE CHOOSE c \in failed : \A d \in failed : c <= d
                   calls_made == TotalRngCalls(SubSeq(results, 1, last))
                   g == IF \E c \in DOMAIN results : results[c].error # "none"
                        THEN [gen EXCEPT !.pc = "raised",
                                         !.create_test_calls = @ + 1,
                                         !.rng_calls = @ + calls_made]
                        ELSE [gen EXCEPT
                                !.test_datasets =
                                    [id |-> gen.next_id,
                                     names |-> {names[c] : c \in DOMAIN names},
                                     datasets |-> [c \in DOMAIN results |->
                                         [name |-> names[c],
                                          id |-> gen.next_id + c,
                                          scenes |-> results[c].scenes]]],
                                !.next_id = @ + 1 + Len(results),
                                !.create_test_calls = @ + 1,
                                !.rng_calls = @ + calls_made]
               IN  gen' = Returned(gen, g, "get_test_datasets", g.test_datasets)
    /\ UNCHANGED <<kind, objects, passed, current_label, pc, label, locals>>

\* the builders whose datasets are materialized: a small canvas per class with
\* two candidate reference locations (one train, one test) and train, test and
\* middle target locations; either side labelled first; with and without
\* neither scenes in training; with no, a zero and a positive validation
\* proportion
AboveBelowKind ==
    [class |-> "AboveBelowReferenceInductiveBias",
     kwargs |-> [DefaultBuilderKwargs EXCEPT
                   !.x_max = 6, !.y_max = 6, !.reference_object_length = 5,
                   !.target_object_grid_size = 2, !.add_neither_train = FALSE]]

BetweenKind ==
    [class |-> "BetweenReferenceInductiveBias",
     kwargs |-> [DefaultBuilderKwargs EXCEPT
                   !.x_max = 6, !.y_max = 9, !.reference_object_length = 5,
                   !.target_object_grid_size = 2, !.add_neither_train = FALSE,
                   !.n_train_target_object_locations = <<3>>,
                   !.prop_train_to_validation = None]]

OneReferenceKind ==
    [class |-> "OneOrTwoReferenceObjects",
     kwargs |-> [DefaultBuilderKwargs EXCEPT
                   !.x_max = 2, !.y_max = 7, !.reference_object_length = 1,
                   !.target_object_grid_height = 4]]

TwoReferencesKind ==
    [class |-> "OneOrTwoReferenceObjects",
     kwargs |-> [DefaultBuilderKwargs EXCEPT
                   !.x_max = 3, !.y_max = 8, !.reference_object_length = 2,
                   !.target_object_grid_height = 4, !.add_neither_train = FALSE,
                   !.between_relation = TRUE, !.two_reference_objects = <<TRUE>>]]

DatasetKinds ==
    {AboveBelowKind, BetweenKind, OneReferenceKind, TwoReferencesKind,
     [AboveBelowKind EXCEPT !.kwargs.seed = 34],
     [BetweenKind EXCEPT !.kwargs.seed = 34],
     [AboveBelowKind EXCEPT !.kwargs.prop_train_to_validation = None],
     [AboveBelowKind EXCEPT !.kwargs.prop_train_to_validation = <<0, 1>>],
     [AboveBelowKind EXCEPT !.kwargs.add_neither_train = TRUE,
                            !.kwargs.n_train_target_object_locations = <<1>>]}

NextDatasets ==
    \/ ReferenceInductiveBiasInit
    \/ OneOrTwoReferenceObjectsInit
    \/ get_training_dataset
    \/ get_validation_dataset
    \/ get_test_datasets

\* one caller constructs a builder and calls its getters one after the other
SpecDatasets == InitBuilder(DatasetKinds) /\ [][NextDatasets]_vars

----------------------------------------------------------------------------
(* The geometry of the scenes: builders of every class on more canvases *)

\* largest target_object_grid_size of an above/below builder
MaxGridSize == 4

\* above/below builders of every grid size, with a reference object long
\* enough for a middle zone (2g + 1), one or two columns and two rows of
\* reference locations, no neither scenes and no validation split; the
\* default number of train target locations on the grids up to 3 by 3
AboveBelowSceneKinds ==
    {k \in
     {[class |-> "AboveBelowReferenceInductiveBias",
      kwargs |-> [DefaultBuilderKwargs EXCEPT
                    !.x_max = 2 * g + 1 + columns, !.y_max = 2 * g + 2,
                    !.reference_object_length = 2 * g + 1,
                    !.target_object_grid_size = g,
                    !.n_train_target_object_locations = n,
                    !.above_or_between_left = left,
                    !.add_neither_train = FALSE,
                    !.prop_train_to_validation = None]] :
        g \in 1..MaxGridSize, columns \in 1..2, left \in {None, <<FALSE>>},
        n \in {None, <<1>>}} :
     k.kwargs.n_train_target_object_locations = None => k.kwargs.target_object_grid_size <= 3}

\* the builders that put neither scenes in their training dataset: one of
\* each class, the reference-inductive-bias ones without a middle zone
NeitherSceneKinds ==
    {[class |-> c,
      kwargs |-> [DefaultBuilderKwargs EXCEPT
                    !.x_max = 6, !.y_max = IF c = "BetweenReferenceInductiveBias" THEN 8 ELSE 5,
                    !.reference_object_length = 4,
                    !.target_object_grid_size = 2,
                    !.n_train_target_object_locations = <<1>>,
                    !.prop_train_to_validation = None]] :
        c \in {"AboveBelowReferenceInductiveBias", "BetweenReferenceInductiveBias"}}
    \cup
    {[class |-> "OneOrTwoReferenceObjects",
      kwargs |-> [DefaultBuilderKwargs EXCEPT
                    !.x_max = 3, !.y_max = 6, !.reference_object_length = 1,
                    !.target_object_grid_height = 4,
                    !.prop_train_to_validation = None]],
     [class |-> "OneOrTwoReferenceObjects",
      kwargs |-> [DefaultBuilderKwargs EXCEPT
                    !.x_max = 3, !.y_max = 8, !.reference_object_length = 2,
                    !.target_object_grid_height = 4,
                    !.between_relation = TRUE,
                    !.prop_train_to_validation = None]]}

\* one-or-two-reference builders without neither scenes, on grids of height 4
\* and 8
OneOrTwoSceneKinds ==
    {[class |-> "OneOrTwoReferenceObjects",
      kwargs |-> [DefaultBuilderKwargs EXCEPT
                    !.x_max = 2, !.reference_object_length = 1,
                    !.y_max = h + 3 + (IF two THEN 1 ELSE 0),
                    !.target_object_grid_height = h,
                    !.between_relation = two, !.two_reference_objects = <<two>>,
                    !.add_neither_train = FALSE,
                    !.prop_train_to_validation = None]] :
        h \in {4, 8}, two \in BOOLEAN}

SceneKinds ==
    AboveBelowSceneKinds \cup NeitherSceneKinds \cup OneOrTwoSceneKinds
    \cup {BetweenKind, [BetweenKind EXCEPT !.kwargs.above_or_between_left = <<FALSE>>]}

NextScenes ==
    \/ ReferenceInductiveBiasInit
    \/ OneOrTwoReferenceObjectsInit
    \/ get_training_dataset
    \/ get_test_datasets

\* one caller constructs a builder and has it create its training dataset and
\* its test conditions
SpecScenes == InitBuilder(SceneKinds) /\ [][NextScenes]_vars

----------------------------------------------------------------------------
(* get_training_dataset under two callers of one builder *)

\* Two threads call get_training_dataset on one constructed builder.  Each
\* statement of the method is one step, and the steps of the two callers
\* interleave freely unless the callers serialize: then a caller holds one
\* mutex from its call to its return.  pc[c] is the statement caller c is at
\* and locals.caller[c] its local variables with the object it was handed;
\* each dataset carries the method that made it.  A call of
\* _create_training_dataset and the store of its result are two steps, and so
\* are the two datasets _split_dataset creates: created holds a result not yet
\* stored, split the argument, the permutation and the first half of a running
\* _split_dataset call.

Callers == {1, 2}

RaceLocals(serialized) ==
    [serialized |-> serialized, mutex |-> 0,
     caller |-> [c \in Callers |-> [train |-> None, val |-> None, returned |-> None,
                                    created |-> None, split |-> None]]]

InitRace ==
    /\ kind = AboveBelowKind
    /\ objects = <<>>
    /\ passed = <<>>
    /\ current_label = 0
    /\ pc = [c \in Callers |-> "idle"]
    /\ label = "none"
    /\ \E serialized \in BOOLEAN : locals = RaceLocals(serialized)
    /\ gen = [pc |-> "new", rng_calls |-> 0]

\* the caller enters get_training_dataset, taking the mutex when the callers
\* serialize
RaceCall(c) ==
    /\ gen.pc = "constructed"
    /\ pc[c] = "idle"
    /\ IF locals.serialized
       THEN /\ locals.mutex = 0
            /\ locals' = [locals EXCEPT !.mutex = c]
       ELSE UNCHANGED locals
    /\ pc' = [pc EXCEPT ![c] = "if_train_dataset_is_none"]
    /\ UNCHANGED <<kind, objects, passed, current_label, label, gen>>

\* if self.train_dataset is None:
RaceTest(c) ==
    /\ pc[c] = "if_train_dataset_is_none"
    /\ pc' = [pc EXCEPT ![c] = IF TrainDatasetIsNone(gen) THEN "create" ELSE "return"]
    /\ UNCHANGED <<kind, objects, passed, current_label, label, locals, gen>>

\* self._create_training_dataset(), the right-hand side of
\* self.train_dataset = self._create_training_dataset()
RaceCreate(c) ==
    /\ pc[c] = "create"
    /\ \E out \in CreateTrainingDataset(kind, gen) :
          IF out.error # "none"
          THEN /\ gen' = [gen EXCEPT !.create_training_calls = @ + 1,
                                     !.rng_calls = @ + out.rng_calls]
               /\ pc' = [pc EXCEPT ![c] = "raised"]
               /\ UNCHANGED locals
          ELSE /\ locals' = [locals EXCEPT
                            !.caller[c].created =
                                [id |-> gen.next_id, scenes |-> out.scenes,
                                 made_by |-> "_create_training_dataset"]]
               /\ gen' = [gen EXCEPT
                            !.next_id = @ + 1,
                            !.create_training_calls = @ + 1,
                            !.rng_calls = @ + out.rng_calls]
               /\ pc' = [pc EXCEPT ![c] = "store_created"]
    /\ UNCHANGED <<kind, objects, passed, current_label, label>>

\* the assignment of self.train_dataset = self._create_training_dataset()
RaceStoreCreated(c) ==
    /\ pc[c] = "store_created"
    /\ gen' = [gen EXCEPT !.train_dataset = locals.caller[c].created]
    /\ locals' = [locals EXCEPT !.caller[c].created = None]
    /\ pc' = [pc EXCEPT ![c] = "if_prop_train_to_validation"]
    /\ UNCHANGED <<kind, objects, passed, current_label, label>>

\* if self.prop_train_to_validation is not None and self.prop_train_to_validation > 0:
RaceTestProp(c) ==
    /\ pc[c] = "if_prop_train_to_validation"
    /\ pc' = [pc EXCEPT ![c] = IF SplitsValidation(kind) THEN "split" ELSE "return"]
    /\ UNCHANGED <<kind, objects, passed, current_label, label, locals, gen>>

\* train, val = self._split_dataset(self.train_dataset, 1 - self.prop_train_to_validation),
\* on the dataset self.train_dataset holds when the statement runs: the call
\* down to first_split and second_split
RaceSplit(c) ==
    /\ pc[c] = "split"
    /\ LET dataset == gen.train_dataset
           n == Len(dataset.scenes)
           split_index == SplitIndex(n, kind.kwargs.prop_train_to_validation)
       IN  \E first_split \in {S \in SUBSET (1..n) : Cardinality(S) = split_index} :
              /\ locals' = [locals EXCEPT
                    !.caller[c].split =
                        [first |-> None,
                         first_scenes |-> Examples(dataset.scenes, first_split),
                         second_scenes |-> Examples(dataset.scenes, (1..n) \ first_split)]]
              /\ gen' = [gen EXCEPT !.rng_calls = @ + 1]
    /\ pc' = [pc EXCEPT ![c] = "split_first"]
    /\ UNCHANGED <<kind, objects, passed, current_label, label>>

\* self._create_dataset(dataset.objects[first_split], dataset.labels[first_split])
RaceSplitFirst(c) ==
    /\ pc[c] = "split_first"
    /\ locals' = [locals EXCEPT
          !.caller[c].split.first = [id |-> gen.next_id,
                                     scenes |-> locals.caller[c].split.first_scenes,
                                     made_by |-> "_split_dataset"]]
    /\ gen' = [gen EXCEPT !.next_id = @ + 1]
    /\ pc' = [pc EXCEPT ![c] = "split_second"]
    /\ UNCHANGED <<kind, objects, passed, current_label, label>>

\* self._create_dataset(dataset.objects[second_split], dataset.labels[second_split]),
\* the return of the pair and its assignment to train, val
RaceSplitSecond(c) ==
    /\ pc[c] = "split_second"
    /\ locals' = [locals EXCEPT
          !.caller[c].train = locals.caller[c].split.first,
          !.caller[c].val = [id |-> gen.next_id,
                             scenes |-> locals.caller[c].split.second_scenes,
                             made_by |-> "_split_dataset"],
          !.caller[c].split = None]
    /\ gen' = [gen EXCEPT !.next_id = @ + 1]
    /\ pc' = [pc EXCEPT ![c] = "store_train"]
    /\ UNCHANGED <<kind, objects, passed, current_label, label>>

\* self.train_dataset = train
RaceStoreTrain(c) ==
    /\ pc[c] = "store_train"
    /\ gen' = [gen EXCEPT !.train_dataset = locals.caller[c].train]
    /\ pc' = [pc EXCEPT ![c] = "store_validation"]
    /\ UNCHANGED <<kind, objects, passed, current_label, label, locals>>

\* self.validation_dataset = val
RaceStoreValidation(c) ==
    /\ pc[c] = "store_validation"
    /\ gen' = [gen EXCEPT !.validation_dataset = locals.caller[c].val]
    /\ pc' = [pc EXCEPT ![c] = "return"]
    /\ UNCHANGED <<kind, objects, passed, current_label, label, locals>>

\* return self.train_dataset; a serializing caller then releases the mutex
RaceReturn(c) ==
    /\ pc[c] = "return"
    /\ locals' = [locals EXCEPT !.caller[c].returned = gen.train_dataset,
                                !.mutex = 0]
    /\ pc' = [pc EXCEPT ![c] = "done"]
    /\ UNCHANGED <<kind, objects, passed, current_label, label, gen>>

NextRace ==
    \/ ReferenceInductiveBiasInit
    \/ \E c \in Callers :
          \/ RaceCall(c)
          \/ RaceTest(c)
          \/ RaceCreate(c)
          \/ RaceStoreCreated(c)
          \/ RaceTestProp(c)
          \/ RaceSplit(c)
          \/ RaceSplitFirst(c)
          \/ RaceSplitSecond(c)
          \/ RaceStoreTrain(c)
          \/ RaceStoreValidation(c)
          \/ RaceReturn(c)

SpecRace == InitRace /\ [][NextRace]_vars

----------------------------------------------------------------------------
(* ObjectGenerator: object types (quinn_objects.py) *)

\* largest number of reference, training target and test target types
MaxTypes == 2

\* the object generators a builder is given: both classes, reference objects
\* of one and two cells, at least one reference type and one training target
\* type, with and without test-only target types
ObjectGenerators ==
    {[class |-> c,
      kwargs |-> [reference_object_length |-> l, target_object_length |-> 1,
                  n_reference_types |-> r, n_train_target_types |-> t,
                  n_test_target_types |-> e]] :
        c \in {"ObjectGeneratorWithSize", "ObjectGeneratorWithoutSize"},
        l \in 1..2, r \in 1..MaxTypes, t \in 1..MaxTypes, e \in 0..MaxTypes}

\* self.n_types
generator_n_types(og) ==
    og.n_reference_types + og.n_train_target_types + og.n_test_target_types

\* _sample_type with the train flag of target objects dropped
sample_type_as_train(og, target, train) ==
    IF ~target
    THEN IF og.n_reference_types <= 1 THEN {0} ELSE 0..(og.n_reference_types - 1)
    ELSE IF og.n_train_target_types <= 1
         THEN {og.n_reference_types}
         ELSE og.n_reference_types..(og.n_reference_types + og.n_train_target_types - 1)

\* the values _sample_type can return: rng.integers(n) draws from 0 .. n - 1,
\* rng.integers(low, high) from low .. high - 1
sample_type(og, target, train) ==
    IF ~target
    THEN IF og.n_reference_types <= 1 THEN {0} ELSE 0..(og.n_reference_types - 1)
    ELSE IF train \/ og.n_test_target_types = 0
         THEN IF og.n_train_target_types <= 1
              THEN {og.n_reference_types}
              ELSE og.n_reference_types..
                       (og.n_reference_types + og.n_train_target_types - 1)
         ELSE IF og.n_test_target_types = 1
              THEN {og.n_reference_types + og.n_train_target_types}
              ELSE (og.n_reference_types + og.n_train_target_types)..
                       (generator_n_types(og) - 1)

\* _to_one_hot: np.zeros(n_types) with entry n set to 1
to_one_hot(n, types) == [i \in 1..types |-> IF i = n + 1 THEN 1 ELSE 0]

\* the rows of one object of the given length and type index: one row
\* [x, y, length, *type] with size, one row [x + j, y, *type] per cell without
generator_object(class, og, length, x, y, type) ==
    IF class = "ObjectGeneratorWithSize"
    THEN << [x |-> x, y |-> y, size |-> <<length>>,
             type |-> to_one_hot(type, generator_n_types(og))] >>
    ELSE [j \in 1..length |->
             [x |-> x + j - 1, y |-> y, size |-> None,
              type |-> to_one_hot(type, generator_n_types(og))]]

\* reference_object, for the type index its _sample_type call returned
reference_object(class, og, x, y, type) ==
    generator_object(class, og, og.reference_object_length, x, y, type)

\* target_object, for the type index its _sample_type call returned
target_object(class, og, x, y, type) ==
    generator_object(class, og, og.target_object_length, x, y, type)

\* torch.cat of a list of row blocks
RECURSIVE TorchCat(_)
TorchCat(blocks) ==
    IF blocks = <<>> THEN <<>> ELSE Head(blocks) \o TorchCat(Tail(blocks))

\* create_input: the target's rows, then the rows of every reference
create_input(class, og, target, references, target_type, reference_types) ==
    TorchCat(<<target_object(class, og, target[1], target[2], target_type)>>
             \o [r \in DOMAIN references |->
                    reference_object(class, og, references[r][1], references[r][2],
                                     reference_types[r])])

\* the number of rows of the target object at the head of an input
TargetRows(class, og) ==
    IF class = "ObjectGeneratorWithSize" THEN 1 ELSE og.target_object_length

\* target and reference locations the inputs are created for
InputTargets == {<<0, 2>>, <<1, 0>>}
InputReferences == {<< <<0, 1>> >>, << <<0, 1>>, <<0, 3>> >>}

\* an object generator before any input was created
InitTypes ==
    /\ kind \in ObjectGenerators
    /\ objects = <<>>
    /\ passed = <<>>
    /\ current_label = 0
    /\ pc = "idle"
    /\ label = "none"
    /\ locals = NoLocals
    /\ gen = [pc |-> "inputs", train_input |-> None, test_input |-> None]

\* one create_input call with the given train flag
CreatedInputs(train) ==
    LET og == kind.kwargs
    IN  {create_input(kind.class, og, target, references, target_type, reference_types) :
            target \in InputTargets,
            target_type \in sample_type(og, TRUE, train),
            references \in {refs \in InputReferences : Len(refs) = 1},
            reference_types \in [1..1 -> sample_type(og, FALSE, train)]}
        \cup
        {create_input(kind.class, og, target, references, target_type, reference_types) :
            target \in InputTargets,
            target_type \in sample_type(og, TRUE, train),
            references \in {refs \in InputReferences : Len(refs) = 2},
            reference_types \in [1..2 -> sample_type(og, FALSE, train)]}

\* a create_input call of _create_training_dataset: train=True; one input of
\* the training dataset is followed
CreateTrainingInput ==
    /\ gen.pc = "inputs"
    /\ gen.train_input = None
    /\ \E input \in CreatedInputs(TRUE) :
          /\ gen' = [gen EXCEPT !.train_input = input]
          /\ objects' = input
    /\ UNCHANGED <<kind, passed, current_label, pc, label, locals>>

\* a create_input call of _create_test_datasets: train=False; one input of
\* the test datasets is followed
CreateTestInput ==
    /\ gen.pc = "inputs"
    /\ gen.test_input = None
    /\ \E input \in CreatedInputs(FALSE) :
          /\ gen' = [gen EXCEPT !.test_input = input]
          /\ objects' = input
    /\ UNCHANGED <<kind, passed, current_label, pc, label, locals>>

NextTypes == CreateTrainingInput \/ CreateTestInput

SpecTypes == InitTypes /\ [][NextTypes]_vars

----------------------------------------------------------------------------
(* Properties *)

IsAdjacent == kind.class \in {"OneDAdjacentRelation", "MultipleDAdjacentRelation"}

\* distance between the modified slot and the slot it was set next to, over
\* the position field(s) the relation reads
ChosenDistance ==
    IF kind.class = "OneDAdjacentRelation"
    THEN L1Distance1D(objects, locals.index_to_modify, locals.index_to_set_next_to)
    ELSE L1Distance(objects, locals.index_to_modify, locals.index_to_set_next_to)

\* C1: after an adjacency balance called with current_label 0 the modified
\* object is at L1 distance exactly 1 from the other chosen object, and
\* evaluate on the returned scene is true
C1_AdjacentBalanceLabelExact ==
    (IsAdjacent /\ pc \in {"balanced", "reevaluated"}) =>
        /\ ChosenDistance = 1
        /\ Evaluate(kind, objects)
        /\ (pc = "reevaluated" => label = TRUE)

\* C2: when the colour-above-colour balance called with current_label 0
\* returns, some above-coloured object is at least as high as every
\* below-coloured object, and evaluate on the returned scene is true
C2_ColorAboveBalanceLabelExact ==
    (kind.class = "ColorAboveColorRelation" /\ pc \in {"balanced", "reevaluated"}) =>
        /\ \E a \in SlotsOfColor(objects, above_color_tensor) :
               \A b \in SlotsOfColor(objects, below_color_tensor) :
                   objects[a].y >= objects[b].y
        /\ (pc = "reevaluated" => label = TRUE)

\* C2 witness: a negative scene without above-coloured objects, whose recoloured
\* object was below-coloured, balanced and evaluated again
C2_Witness ==
    /\ kind.class = "ColorAboveColorRelation"
    /\ pc = "reevaluated"
    /\ label = TRUE
    /\ ~Evaluate(kind, passed)
    /\ locals.recolored
    /\ passed[locals.index_to_modify].color = below_color_tensor
    /\ SlotsOfColor(objects, below_color_tensor) # {}

\* C3: on a scene with count(A) <= count(B), the object-count balance returns a
\* scene with count(A) > count(B), and evaluate on it is true
C3_ObjectCountBalanceLabelExact ==
    (kind.class = "ObjectCountRelation" /\ ~Evaluate(kind, passed)) =>
        /\ pc \in {"balanced", "reevaluated"} =>
               Cardinality(FirstObjects(kind.kwargs, objects))
                   > Cardinality(SecondObjects(kind.kwargs, objects))
        /\ pc = "reevaluated" => label = TRUE

\* C3 witness: A and B on the same field, B filling the scene: some B-objects
\* are reassigned, then objects are recoloured to A, and evaluate is true
C3_Witness ==
    /\ kind.class = "ObjectCountRelation"
    /\ kind.kwargs = SameFieldKwargs
    /\ pc = "reevaluated"
    /\ label = TRUE
    /\ Cardinality(SecondObjects(kind.kwargs, passed)) = Len(passed)
    /\ locals.num_second_objects_to_modify > 0
    /\ locals.indices_to_modify # {}

\* two distinct slots agree on every property field
HasIdenticalPair(objs) ==
    \E i \in DOMAIN objs : \E j \in DOMAIN objs :
        /\ i # j
        /\ \A f \in {property_field_names[n] : n \in DOMAIN property_field_names} :
               objs[i][f] = objs[j][f]

\* C4: IdenticalObjectsRelation.evaluate returns true if and only if two
\* distinct slots of the scene agree on every property field
C4_IdenticalEvaluateIff ==
    (kind.class = "IdenticalObjectsRelation" /\ pc = "evaluated") =>
        (label = HasIdenticalPair(objects))

\* C5: the identical-objects balance called with current_label 0 copies the
\* property fields of one slot onto a different slot, and evaluate on the
\* returned scene is positive
C5_IdenticalBalanceLabelExact ==
    (kind.class = "IdenticalObjectsRelation" /\ pc \in {"balanced", "reevaluated"}) =>
        /\ locals.index_to_modify # locals.index_to_set_next_to
        /\ objects[locals.index_to_modify].color = passed[locals.index_to_set_next_to].color
        /\ objects[locals.index_to_modify].shape = passed[locals.index_to_set_next_to].shape
        /\ Evaluate(kind, objects)
        /\ (pc = "reevaluated" => label = TRUE)

GenDone == gen.pc \in {"returned", "raised"}

\* C6: a call of the directed balanced generator with batch_size >= 2 that
\* returns, returns batch_size scenes and batch_size labels of which exactly
\* floor(batch_size / 2) are 1
C6_DirectedBalancedHalfPositive ==
    (gen.pc = "returned" /\ gen.batch_size >= 2) =>
        /\ Len(gen.data) = gen.batch_size
        /\ Len(gen.labels) = gen.batch_size
        /\ Cardinality({i \in DOMAIN gen.labels : gen.labels[i] = 1}) = gen.batch_size \div 2

\* C6 witness: an odd batch returned after a resampling round and a balance
C6_Witness ==
    /\ gen.pc = "returned"
    /\ gen.batch_size = 3
    /\ gen.rounds > 0
    /\ gen.modified # {}

\* C7: every label the directed balanced generator returns is the value of the
\* relation's evaluate on the returned scene at the same index
C7_ReturnedLabelsAreEvaluate ==
    gen.pc = "returned" =>
        \A i \in DOMAIN gen.labels : gen.labels[i] = LabelOf(kind, gen.data[i])

\* the batch has a surplus on the side the balancer cannot reduce, and the
\* call is at the head of its while loop
SurplusRemains ==
    /\ gen.pc = "while"
    /\ (PositiveCount(gen.labels) > HalfBatchSize(gen.batch_size)) = negative_to_positive

\* C8: a call makes at most max_recursion_depth resampling rounds and at most
\* 1 + max_recursion_depth batch draws; when a surplus the balancer cannot
\* correct remains after max_recursion_depth rounds (or, for a call given a
\* recursion_depth, once the depth has reached max_recursion_depth), the next
\* step of the call raises, the call does raise, and a call that raised never
\* returns a batch; a call raises in no other case than with its depth above
\* max_recursion_depth and, if it drew a batch, with that surplus; and every
\* call ends, by returning or by raising
C8_DirectedBalancedBounded ==
    /\ [](/\ gen.rounds <= max_recursion_depth
          /\ gen.draws <= 1 + max_recursion_depth
          /\ gen.pc = "raised" =>
                /\ gen.recursion_depth > max_recursion_depth
                /\ gen.draws > 0 =>
                      PositiveCount(gen.labels) > HalfBatchSize(gen.batch_size))
    /\ [][(SurplusRemains /\ gen.rounds = max_recursion_depth)
             => (gen'.pc = "raised" /\ gen'.draws = gen.draws)]_vars
    /\ [][(SurplusRemains /\ gen.recursion_depth = max_recursion_depth)
             => (gen'.pc = "raised" /\ gen'.draws = gen.draws)]_vars
    /\ []((SurplusRemains /\ gen.rounds = max_recursion_depth) => <>(gen.pc = "raised"))
    /\ []((SurplusRemains /\ gen.recursion_depth = max_recursion_depth)
             => <>(gen.pc = "raised"))
    /\ <>GenDone
    /\ [][gen.pc = "raised" => gen'.pc = "raised"]_vars

\* C8 witness: a call with the default recursion_depth raised after
\* max_recursion_depth rounds that left a surplus of positives
C8_Witness ==
    /\ gen.pc = "raised"
    /\ gen.rounds = max_recursion_depth
    /\ gen.draws = 1 + max_recursion_depth
    /\ gen.recursion_depth = max_recursion_depth + 1
    /\ PositiveCount(gen.labels) > HalfBatchSize(gen.batch_size)

\* C9: a balancer called with a current_label other than 0 raises, returns
\* nothing and leaves the scene as it was passed
C9_BalanceRejectsNonZeroLabel ==
    current_label # 0 =>
        /\ pc \in {"start", "raised"}
        /\ objects = passed
        /\ label = "none"

\* C9 witness: a balancer that modifies more than one field raised
C9_Witness ==
    /\ kind.class = "ColorAboveColorRelation"
    /\ current_label # 0
    /\ pc = "raised"

\* no two slots share the same (x, y)
DistinctCells(objs) ==
    \A i \in DOMAIN objs : \A j \in DOMAIN objs :
        i # j => <<objs[i].x, objs[i].y>> # <<objs[j].x, objs[j].y>>

\* C10: the colour-above-colour balance of a negative scene whose objects
\* occupy pairwise distinct cells returns a scene whose objects occupy pairwise
\* distinct cells
C10_ColorAboveBalanceNoSharedCell ==
    (/\ kind.class = "ColorAboveColorRelation"
     /\ pc = "balanced"
     /\ ~Evaluate(kind, passed)
     /\ DistinctCells(passed)) =>
        DistinctCells(objects)

\* C11: the collision loop of ColorAboveColorRelation.balance is bounded by its
\* configured count: a call that is still in the loop has made at most
\* stuck_count_to_perturb_x passes (the one count the constructor takes), and a
\* call that has used them up has raised instead of entering another pass
C11_CollisionLoopBounded ==
    (/\ kind.class = "ColorAboveColorRelation"
     /\ pc = "collision_loop") =>
        locals.stuck_count <= stuck_count_to_perturb_x

\* every position value of every object lies in its generator's domain
InBounds(objs) ==
    \A i \in DOMAIN objs : \A f \in {"x", "y"} : objs[i][f] \in Coords(f)

\* C12: the balance of OneDAdjacentRelation and of MultipleDAdjacentRelation,
\* called on a scene whose position values lie in [min_coord, max_coord - 1],
\* returns a scene whose position values all lie in [min_coord, max_coord - 1]
C12_AdjacentBalanceInBounds ==
    (/\ kind.class \in {"OneDAdjacentRelation", "MultipleDAdjacentRelation"}
     /\ pc = "balanced"
     /\ InBounds(passed)) =>
        InBounds(objects)

\* C12 witness: the copied position was at the upper edge of the y domain and
\* at the lower edge of the x domain, and the modified object was moved inwards
C12_Witness ==
    /\ kind.class = "MultipleDAdjacentRelation"
    /\ pc = "balanced"
    /\ InBounds(passed)
    /\ passed[locals.index_to_set_next_to].y = max_coord("y") - 1
    /\ passed[locals.index_to_set_next_to].x = min_coord
    /\ passed[locals.index_to_modify] # passed[locals.index_to_set_next_to]
    /\ \/ /\ objects[locals.index_to_modify].y = max_coord("y") - 2
          /\ objects[locals.index_to_modify].x = min_coord
       \/ /\ objects[locals.index_to_modify].y = max_coord("y") - 1
          /\ objects[locals.index_to_modify].x = min_coord + 1
    /\ InBounds(objects)

BalancedDone == gen.pc \in {"returned", "index_error"}

\* C13: a call of the post-hoc balanced generator with batch_size >= 2, even or
\* odd, whose accumulation loop has ended returns a batch: floor(batch_size / 2)
\* scenes labelled 1, each evaluating positive, and floor(batch_size / 2)
\* scenes labelled 0, each evaluating negative, every scene with its own label
C13_PostHocBalancedHalves ==
    (BalancedDone /\ gen.batch_size >= 2) =>
        /\ gen.pc = "returned"
        /\ Len(gen.data) = 2 * HalfBatchSize(gen.batch_size)
        /\ DOMAIN gen.labels = DOMAIN gen.data
        /\ Cardinality({i \in DOMAIN gen.labels : gen.labels[i] = 1})
               = HalfBatchSize(gen.batch_size)
        /\ Cardinality({i \in DOMAIN gen.labels : gen.labels[i] = 0})
               = HalfBatchSize(gen.batch_size)
        /\ \A i \in DOMAIN gen.data : (gen.labels[i] = 1) <=> Evaluate(kind, gen.data[i])

\* the relation yields both labels on the scenes the generator draws
YieldsBothLabels ==
    /\ \E sample \in Samples(kind, gen.n) : LabelOf(kind, sample) = 1
    /\ \E sample \in Samples(kind, gen.n) : LabelOf(kind, sample) = 0

\* C14: a call of the post-hoc balanced generator with batch_size >= 2 returns
\* only once both pools hold half the batch; when the draws keep producing
\* both labels it eventually returns; when the relation yields only one label
\* it never returns and never raises
C14_PostHocLoopUnbounded ==
    /\ []((gen.pc = "returned" /\ gen.batch_size >= 2) =>
             /\ gen.positive_count >= HalfBatchSize(gen.batch_size)
             /\ gen.negative_count >= HalfBatchSize(gen.batch_size))
    /\ (YieldsBothLabels /\ gen.batch_size >= 2) => <>(gen.pc = "returned")
    /\ (~YieldsBothLabels /\ gen.batch_size >= 2) => [](~BalancedDone)

\* C15: every location partition computed at construction splits its candidate
\* set into a train subset and a test subset that are disjoint and cover it; a
\* split by proportion p of N candidates has floor(p * N) train locations; the
\* subsets kept on the builder are those of the splits
C15_LocationPartitions ==
    gen.pc = "constructed" =>
        /\ \A i \in DOMAIN gen.splits :
              LET split == gen.splits[i]
              IN  /\ split.train \cap split.test = {}
                  /\ split.train \cup split.test = split.items
                  /\ split.max_train_index = None =>
                        Cardinality(split.train) * split.prop_train[2]
                            <= Cardinality(split.items) * split.prop_train[1]
                  /\ split.max_train_index = None =>
                        (Cardinality(split.train) + 1) * split.prop_train[2]
                            > Cardinality(split.items) * split.prop_train[1]
        /\ gen.splits[1].items = possible_reference_object_locations(kind)
        /\ gen.train_reference_object_locations \cap gen.test_reference_object_locations = {}
        /\ gen.train_reference_object_locations \cup gen.test_reference_object_locations
              = possible_reference_object_locations(kind)
        /\ gen.train_target_object_locations \cap gen.test_target_object_locations = {}
        /\ gen.train_target_object_locations \cup gen.test_target_object_locations
              = IF IsReferenceInductiveBias(kind.class)
                THEN possible_target_object_locations(kind)
                ELSE UNION {BandLocations(kind)[b] : b \in DOMAIN BandLocations(kind)}

\* C15 witness: a builder with two reference objects was constructed from
\* three bands, each split into a non-empty train and a non-empty test subset,
\* and its reference locations are split 3 to 1
C15_Witness ==
    /\ gen.pc = "constructed"
    /\ kind.class = "OneOrTwoReferenceObjects"
    /\ Len(gen.splits) = 4
    /\ \A i \in 2..4 : gen.splits[i].train # {} /\ gen.splits[i].test # {}
    /\ Cardinality(gen.train_reference_object_locations) = 3
    /\ Cardinality(gen.test_reference_object_locations) = 1

\* C20: a constructor called with a canvas, margins and reference length that
\* leave no legal reference location ends by raising, with no call made on the
\* random source; it never ends with a constructed builder
C20_EmptyCandidatesFailFast ==
    (possible_reference_object_locations(kind) = {} /\ gen.pc # "new") =>
        /\ gen.pc = "raised"
        /\ gen.rng_calls = 0

\* the reference locations the scenes were built on, and the target locations
\* of the scenes that are not neither scenes
ReferencesUsed(scenes) == {scenes[i].reference_location : i \in DOMAIN scenes}
TargetsUsed(scenes) ==
    {scenes[i].target_location : i \in {j \in DOMAIN scenes : scenes[j].target_location # None}}

\* the subsets a test condition's name denotes
ReferenceSubsetOf(name) ==
    IF name \in {TRAIN_REFERENCE_TEST_TARGET, TRAIN_REFERENCE_MIDDLE_TARGET}
    THEN gen.train_reference_object_locations
    ELSE gen.test_reference_object_locations

TargetSubsetOf(name) ==
    IF name \in {TRAIN_REFERENCE_MIDDLE_TARGET, TEST_REFERENCE_MIDDLE_TARGET}
    THEN middle_target_object_locations(kind)
    ELSE IF name = TEST_REFERENCE_TRAIN_TARGET
    THEN gen.train_target_object_locations
    ELSE gen.test_target_object_locations

\* C16: every scene of the training (and validation) dataset that is not a
\* neither scene uses a train reference location and a train target location;
\* every test condition uses exactly the reference subset and the target subset
\* its name denotes; the reference-inductive-bias builders return the five
\* named conditions and the one-or-two-reference builder three, none of them a
\* middle-target condition; no scene of a test condition pairs a train
\* reference location with a train target location
C16_LocationUsageFollowsName ==
    gen.pc = "constructed" =>
        /\ \A d \in {gen.train_dataset, gen.validation_dataset} \ {None} :
              /\ ReferencesUsed(d.scenes) \subseteq gen.train_reference_object_locations
              /\ TargetsUsed(d.scenes) \subseteq gen.train_target_object_locations
        /\ gen.test_datasets # None =>
              /\ gen.test_datasets.names
                    = IF IsReferenceInductiveBias(kind.class)
                      THEN {TRAIN_REFERENCE_TEST_TARGET, TRAIN_REFERENCE_MIDDLE_TARGET,
                            TEST_REFERENCE_TRAIN_TARGET, TEST_REFERENCE_TEST_TARGET,
                            TEST_REFERENCE_MIDDLE_TARGET}
                      ELSE {TRAIN_REFERENCE_TEST_TARGET, TEST_REFERENCE_TRAIN_TARGET,
                            TEST_REFERENCE_TEST_TARGET}
              /\ Len(gen.test_datasets.datasets) = Cardinality(gen.test_datasets.names)
              /\ \A c \in DOMAIN gen.test_datasets.datasets :
                    LET d == gen.test_datasets.datasets[c]
                    IN  /\ d.name \in gen.test_datasets.names
                        /\ \A e \in DOMAIN gen.test_datasets.datasets :
                              gen.test_datasets.datasets[e].name = d.name => e = c
                        /\ ReferencesUsed(d.scenes) = ReferenceSubsetOf(d.name)
                        /\ TargetsUsed(d.scenes) = TargetSubsetOf(d.name)
                        /\ \A i \in DOMAIN d.scenes :
                              ~ /\ d.scenes[i].reference_location
                                      \in gen.train_reference_object_locations
                                /\ d.scenes[i].target_location
                                      \in gen.train_target_object_locations

\* C16 witness: an above/below builder has materialized a training dataset
\* that holds a neither scene next to a labelled one, and its five test
\* conditions
C16_Witness ==
    /\ gen.pc = "constructed"
    /\ kind.class = "AboveBelowReferenceInductiveBias"
    /\ gen.train_dataset # None
    /\ \E i, j \in DOMAIN gen.train_dataset.scenes :
          /\ gen.train_dataset.scenes[i].target_location = None
          /\ gen.train_dataset.scenes[j].target_location # None
    /\ gen.test_datasets # None
    /\ Len(gen.test_datasets.datasets) = 5

\* C17: in every order of getter calls on one builder _create_training_dataset
\* and _create_test_datasets have each run at most once, a getter hands to
\* every call the object it handed to its first call, and a call of a getter
\* that was called before leaves the number of draws from self.rng unchanged
C17_MaterializationIdempotent ==
    gen.pc = "constructed" =>
        /\ gen.create_training_calls <= 1
        /\ gen.create_test_calls <= 1
        /\ gen.last_call.getter # "none" =>
              gen.last_call.returned = gen.first_returned[gen.last_call.getter]
        /\ gen.last_call.repeated => gen.rng_calls = gen.last_call.rng_calls_before

\* C17 witness: all three getters have returned on a builder whose training
\* dataset drew neither locations and a validation permutation, and the latest
\* call is a repeated get_training_dataset
C17_Witness ==
    /\ gen.pc = "constructed"
    /\ kind.kwargs.add_neither_train
    /\ gen.validation_split # None
    /\ \A getter \in Getters : gen.first_returned[getter] > 0
    /\ gen.create_training_calls = 1
    /\ gen.create_test_calls = 1
    /\ gen.last_call.getter = "get_training_dataset"
    /\ gen.last_call.repeated

\* C18: with a positive validation proportion p = num/den, the training and
\* validation datasets of a builder are the examples of one dataset of N
\* examples made by _create_training_dataset at two index sets that are
\* disjoint, cover all N indices and have floor(N * (1 - p)) and
\* N - floor(N * (1 - p)) members; a first call of get_validation_dataset
\* materializes the training dataset; each getter returns its member of that
\* one pair whichever was called first; with p None or 0 get_validation_dataset
\* returns None and leaves the training dataset unmaterialized
C18_ValidationSplit ==
    gen.pc = "constructed" =>
        IF SplitsValidation(kind)
        THEN /\ gen.last_call.getter \in {"get_training_dataset", "get_validation_dataset"} =>
                   /\ gen.train_dataset # None
                   /\ gen.validation_dataset # None
                   /\ gen.create_training_calls = 1
             /\ gen.train_dataset # None =>
                   LET split == gen.validation_split
                       n == Len(split.unsplit.scenes)
                       num == kind.kwargs.prop_train_to_validation[1]
                       den == kind.kwargs.prop_train_to_validation[2]
                       size == Cardinality(split.first_split)
                   IN  /\ split.first_split \cap split.second_split = {}
                       /\ split.first_split \cup split.second_split = 1..n
                       /\ size * den <= n * (den - num)
                       /\ n * (den - num) < (size + 1) * den
                       /\ Cardinality(split.second_split) = n - size
                       /\ Len(gen.train_dataset.scenes) = size
                       /\ Len(gen.validation_dataset.scenes) = n - size
                       /\ gen.train_dataset.scenes = Examples(split.unsplit.scenes, split.first_split)
                       /\ gen.validation_dataset.scenes
                             = Examples(split.unsplit.scenes, split.second_split)
                       /\ gen.first_returned["get_training_dataset"]
                             \in {-1, gen.train_dataset.id}
                       /\ gen.first_returned["get_validation_dataset"]
                             \in {-1, gen.validation_dataset.id}
                       /\ gen.train_dataset.id # gen.validation_dataset.id
        ELSE /\ gen.validation_dataset = None
             /\ gen.validation_split = None
             /\ gen.first_returned["get_validation_dataset"] \in {-1, 0}
             /\ gen.first_returned["get_training_dataset"] = -1 =>
                   /\ gen.train_dataset = None
                   /\ gen.create_training_calls = 0

\* C18 witness: get_validation_dataset, called before get_training_dataset,
\* returned a validation dataset of one example split from three, and the
\* training dataset holds the other two
C18_Witness ==
    /\ gen.pc = "constructed"
    /\ SplitsValidation(kind)
    /\ gen.first_returned["get_training_dataset"] = -1
    /\ gen.first_returned["get_validation_dataset"] > 0
    /\ gen.last_call.getter = "get_validation_dataset"
    /\ gen.train_dataset # None
    /\ Len(gen.validation_split.unsplit.scenes) = 3
    /\ Len(gen.train_dataset.scenes) = 2
    /\ Len(gen.validation_dataset.scenes) = 1

\* the object caller c was handed is a dataset made by
\* _create_training_dataset although the builder splits off a validation
\* dataset
HandedUnsplit(c) ==
    /\ pc[c] = "done"
    /\ kind.kwargs.prop_train_to_validation # None
    /\ kind.kwargs.prop_train_to_validation[1] > 0
    /\ locals.caller[c].returned.made_by = "_create_training_dataset"

\* C19: when the two callers of get_training_dataset hold one mutex from call
\* to return, _create_training_dataset runs at most once and no caller is
\* handed the un-split dataset
C19_SerializedMaterializationSafe ==
    (gen.pc = "constructed" /\ locals.serialized) =>
        /\ gen.create_training_calls <= 1
        /\ \A c \in Callers : ~HandedUnsplit(c)

\* C19 witness: without the mutex _create_training_dataset has run twice and
\* a caller holds the un-split dataset, every example of the validation
\* dataset among its examples
C19_Witness ==
    /\ gen.pc = "constructed"
    /\ ~locals.serialized
    /\ gen.create_training_calls > 1
    /\ gen.validation_dataset # None
    /\ \E c \in Callers :
          /\ HandedUnsplit(c)
          /\ \A i \in DOMAIN gen.validation_dataset.scenes :
                \E j \in DOMAIN locals.caller[c].returned.scenes :
                   locals.caller[c].returned.scenes[j] = gen.validation_dataset.scenes[i]

\* the labels of a dataset follow the neither toggle: with the toggle on, the
\* neither scenes carry 0 and the other scenes 1 or 2; with the toggle off the
\* dataset has no neither scene and its labels are 0 or 1
LabelsFollowToggle(scenes, toggle) ==
    \A i \in DOMAIN scenes :
        IF toggle
        THEN IF scenes[i].target_location = None
             THEN scenes[i].label = 0
             ELSE scenes[i].label \in {1, 2}
        ELSE /\ scenes[i].target_location # None
             /\ scenes[i].label \in {0, 1}

\* C21: the labels of the training and validation datasets follow
\* add_neither_train and the labels of every test condition, the middle-target
\* conditions included, follow add_neither_test
C21_LabelRangeFollowsToggle ==
    gen.pc = "constructed" =>
        /\ \A d \in {gen.train_dataset, gen.validation_dataset} \ {None} :
              LabelsFollowToggle(d.scenes, kind.kwargs.add_neither_train)
        /\ gen.test_datasets # None =>
              \A c \in DOMAIN gen.test_datasets.datasets :
                 LabelsFollowToggle(gen.test_datasets.datasets[c].scenes,
                                    kind.kwargs.add_neither_test)

\* the scenes of every dataset the builder holds
MaterializedScenes ==
    LET datasets == ({gen.train_dataset, gen.validation_dataset} \ {None})
                    \cup (IF gen.test_datasets = None THEN {}
                          ELSE {gen.test_datasets.datasets[c] :
                                   c \in DOMAIN gen.test_datasets.datasets})
    IN  UNION {{d.scenes[i] : i \in DOMAIN d.scenes} : d \in datasets}

NeitherScenesMaterialized == {s \in MaterializedScenes : s.target_location = None}
LabelledScenesMaterialized == {s \in MaterializedScenes : s.target_location # None}

InCanvas(location) ==
    /\ 0 <= location[1] /\ location[1] < kind.kwargs.x_max
    /\ 0 <= location[2] /\ location[2] < kind.kwargs.y_max

\* C22: the target of every neither scene is inside the canvas and in none of
\* the columns ref_x .. ref_x + reference_object_length - 1 of a reference
\* object of its scene, and every candidate reference location of the builder
\* has at least one admissible neither x coordinate
C22_NeitherOutsideFootprint ==
    gen.pc = "constructed" =>
        /\ \A s \in NeitherScenesMaterialized :
              /\ InCanvas(s.target)
              /\ \A r \in DOMAIN s.references :
                    \/ s.target[1] < s.references[r][1]
                    \/ s.target[1] > s.references[r][1]
                                        + kind.kwargs.reference_object_length - 1
        /\ \A location \in possible_reference_object_locations(kind) :
              valid_x_locations(kind, location) # {}

\* C22 witness: a between builder drew a neither target left of its two
\* reference objects
C22_Witness ==
    /\ gen.pc = "constructed"
    /\ kind.class = "BetweenReferenceInductiveBias"
    /\ \E s \in NeitherScenesMaterialized :
          /\ Len(s.references) = 2
          /\ s.target[1] < s.references[1][1]

\* the x offsets, from the reference location, of the middle zone
MiddleZone == {m[1] : m \in middle_target_object_locations(kind)}

\* the scenes of the training and validation datasets, and of the test
\* conditions named in names
TrainingScenes ==
    UNION {{d.scenes[i] : i \in DOMAIN d.scenes} :
              d \in {gen.train_dataset, gen.validation_dataset} \ {None}}

TestScenes(names) ==
    IF gen.test_datasets = None THEN {}
    ELSE UNION {{gen.test_datasets.datasets[c].scenes[i] :
                    i \in DOMAIN gen.test_datasets.datasets[c].scenes} :
                c \in {d \in DOMAIN gen.test_datasets.datasets :
                          gen.test_datasets.datasets[d].name \in names}}

\* C23: in a reference-inductive-bias builder no x offset of the middle zone
\* is the x offset of a left-anchored or of a right-anchored placement of a
\* target location, no scene of the training dataset and of the train-target
\* and test-target conditions has its target in a column of the middle zone,
\* and every scene of the middle-target conditions has
C23_MiddleZoneDisjoint ==
    (gen.pc = "constructed" /\ IsReferenceInductiveBias(kind.class)) =>
        /\ \A t \in possible_target_object_locations(kind) :
              /\ t[1] \notin MiddleZone
              /\ kind.kwargs.reference_object_length - kind.kwargs.target_object_grid_size + t[1]
                    \notin MiddleZone
        /\ \A s \in TrainingScenes \cup TestScenes({TRAIN_REFERENCE_TEST_TARGET,
                                                    TEST_REFERENCE_TRAIN_TARGET,
                                                    TEST_REFERENCE_TEST_TARGET}) :
              s.target[1] - s.reference_location[1] \notin MiddleZone
        /\ \A s \in TestScenes({TRAIN_REFERENCE_MIDDLE_TARGET, TEST_REFERENCE_MIDDLE_TARGET}) :
              s.target[1] - s.reference_location[1] \in MiddleZone

\* C23 witness: a between builder with a middle zone holds its training
\* dataset and its test conditions, a middle-target condition among them
C23_Witness ==
    /\ gen.pc = "constructed"
    /\ kind.class = "BetweenReferenceInductiveBias"
    /\ MiddleZone # {}
    /\ TrainingScenes # {}
    /\ TestScenes({TRAIN_REFERENCE_MIDDLE_TARGET}) # {}
    /\ TestScenes({TEST_REFERENCE_TEST_TARGET}) # {}

\* the datasets the builder holds, each as its sequence of scenes
MaterializedDatasets ==
    {d.scenes : d \in {gen.train_dataset, gen.validation_dataset} \ {None}}
    \cup (IF gen.test_datasets = None THEN {}
          ELSE {gen.test_datasets.datasets[c].scenes :
                   c \in DOMAIN gen.test_datasets.datasets})

\* the side of the reference object's row the target of a scene is on
Side(s) ==
    IF s.target[2] > s.references[1][2] THEN "above"
    ELSE IF s.target[2] < s.references[1][2] THEN "below"
    ELSE "on the row"

\* every labelled scene of the dataset has its target off the reference row,
\* the dataset holds for it a scene built from the same reference and target
\* location with the target on the other side, and two scenes have the same
\* label exactly if their targets are on the same side
SymmetricPairs(scenes) ==
    LET labelled == {i \in DOMAIN scenes : scenes[i].target_location # None}
    IN  /\ \A i \in labelled :
              /\ Side(scenes[i]) # "on the row"
              /\ \E j \in labelled :
                    /\ scenes[j].reference_location = scenes[i].reference_location
                    /\ scenes[j].target_location = scenes[i].target_location
                    /\ Side(scenes[j]) \notin {Side(scenes[i]), "on the row"}
        /\ \A i, j \in labelled :
              (Side(scenes[i]) = Side(scenes[j])) <=> (scenes[i].label = scenes[j].label)

\* C25: in every dataset of an above/below builder (training, validation,
\* left/right and middle test conditions), whatever its grid size, each pair
\* of scenes has one target strictly above and one strictly below the
\* reference row, with different labels, and a side always has the same label
C25_AboveBelowPairsSymmetric ==
    (gen.pc = "constructed" /\ kind.class = "AboveBelowReferenceInductiveBias") =>
        \A scenes \in MaterializedDatasets : SymmetricPairs(scenes)

\* the labelled scenes of a dataset made with the neither toggle add_neither
\* are labelled by the side of the reference rows their targets end on: with
\* one reference object 1 above its row and 0 below, with two 1 between the
\* two rows and 0 below the bottom or above the top row, each shifted by one
\* under the toggle
LabelledByGeometry(scenes, add_neither) ==
    \A i \in {j \in DOMAIN scenes : scenes[j].target_location # None} :
        LET s == scenes[i]
            y == s.target[2]
            positive == s.label = 1 + BoolInt(add_neither)
            negative == s.label = 0 + BoolInt(add_neither)
        IN  /\ positive \/ negative
            /\ \A r \in DOMAIN s.references : y # s.references[r][2]
            /\ IF Len(s.references) = 1
               THEN /\ positive <=> y > s.references[1][2]
                    /\ negative <=> y < s.references[1][2]
               ELSE /\ positive <=> (s.references[1][2] < y /\ y < s.references[2][2])
                    /\ negative <=> (y < s.references[1][2] \/ y > s.references[2][2])

\* C27: in every dataset of a one-or-two-reference builder a labelled scene is
\* positive exactly if its target ends strictly above the single reference row
\* (strictly between the two reference rows) and negative exactly if strictly
\* below it (strictly below the bottom or above the top row); no labelled
\* target is on a reference row
C27_OneOrTwoLabelAgreesWithGeometry ==
    (gen.pc = "constructed" /\ kind.class = "OneOrTwoReferenceObjects") =>
        /\ \A d \in {gen.train_dataset, gen.validation_dataset} \ {None} :
              LabelledByGeometry(d.scenes, kind.kwargs.add_neither_train)
        /\ gen.test_datasets # None =>
              \A c \in DOMAIN gen.test_datasets.datasets :
                 LabelledByGeometry(gen.test_datasets.datasets[c].scenes,
                                    kind.kwargs.add_neither_test)

\* C27 witness: a builder with two reference objects holds a test condition
\* with a positive target between the two rows and a negative target above
\* the top row
C27_Witness ==
    /\ gen.pc = "constructed"
    /\ kind.class = "OneOrTwoReferenceObjects"
    /\ two_reference_objects(kind)
    /\ gen.test_datasets # None
    /\ \E c \in DOMAIN gen.test_datasets.datasets :
          LET scenes == gen.test_datasets.datasets[c].scenes
          IN  \E i, j \in DOMAIN scenes :
                 /\ scenes[i].label = 1
                 /\ scenes[i].target[2] > scenes[i].references[1][2]
                 /\ scenes[j].label = 0
                 /\ scenes[j].target[2] > scenes[j].references[2][2]

\* C28: in every dataset of every constructed builder each reference object
\* and each target of a labelled scene is placed inside the canvas
C28_ObjectsInsideCanvas ==
    gen.pc = "constructed" =>
        \A s \in LabelledScenesMaterialized :
            /\ InCanvas(s.target)
            /\ \A r \in DOMAIN s.references : InCanvas(s.references[r])

\* C29: in a one-or-two-reference builder with two reference objects, a
\* neither scene and a labelled scene built on the same grid location have
\* their bottom and top reference objects at the same positions
C29_NeitherReferencesAsLabelled ==
    (/\ gen.pc = "constructed"
     /\ kind.class = "OneOrTwoReferenceObjects"
     /\ two_reference_objects(kind)) =>
        \A n \in NeitherScenesMaterialized : \A l \in LabelledScenesMaterialized :
            n.reference_location = l.reference_location => n.references = l.references

\* a one-hot vector of the given width
IsOneHot(v, width) ==
    /\ Len(v) = width
    /\ \A i \in DOMAIN v : v[i] \in {0, 1}
    /\ Cardinality({i \in DOMAIN v : v[i] = 1}) = 1

\* C24: while and after ObjectCountRelation.balance or
\* ColorAboveColorRelation.balance runs on a scene of one-hot objects, the
\* colour and the shape of every object have exactly one active entry, and the
\* scene keeps its number of objects and the width of its fields
C24_BalanceKeepsOneHot ==
    /\ Len(objects) = Len(passed)
    /\ \A i \in DOMAIN objects :
          /\ IsOneHot(objects[i].color, n_types("color"))
          /\ IsOneHot(objects[i].shape, n_types("shape"))
          /\ DOMAIN objects[i] = DOMAIN passed[i]

\* C24 witness: ObjectCountRelation.balance has returned a scene that was
\* filled with B-objects, after recolouring B-objects to another category and
\* objects to A
C24_Witness ==
    /\ pc = "balanced"
    /\ kind.class = "ObjectCountRelation"
    /\ Cardinality(SecondObjects(kind.kwargs, passed)) = Len(passed)
    /\ locals.num_second_objects_to_modify > 0
    /\ locals.num_objects_to_modify > 0
    /\ objects # passed

\* the objects that are not category A
NonFirstObjects(cfg, objs) == (DOMAIN objs) \ FirstObjects(cfg, objs)

\* the smallest number of non-A objects whose recolouring to A makes the
\* count relation hold
SmallestFlippingCount(cfg, objs) ==
    LET flips == {Cardinality(S) : S \in
                     {T \in SUBSET NonFirstObjects(cfg, objs) :
                         ObjectCountEvaluate(cfg, AssignFirst(cfg, objs, T))}}
    IN  CHOOSE m \in flips : \A other \in flips : m <= other

\* the scene after the B-objects chosen to make room were recoloured
AfterMakingRoom ==
    IF locals.num_second_objects_to_modify > 0
    THEN ReassignSecond(kind.kwargs, passed, locals.new_assignments)
    ELSE passed

\* the new category of a recoloured B-object is neither B nor, when A is a
\* category of the same field, A
NeitherSecondNorFirst(cfg, c) ==
    /\ c # cfg.second_field_index
    /\ cfg.first_field_name = cfg.second_field_name => c # first_field_index

\* C26: when ObjectCountRelation.balance has returned a scene that was filled
\* with B-objects, it recoloured one B-object (the fewest that make room), to a
\* category that is neither B nor A, and afterwards the number of non-A objects
\* it recoloured to A is at least the smallest count that makes the relation
\* hold and at most the number of non-A objects
C26_MinimalRecolouring ==
    (/\ pc = "balanced"
     /\ kind.class = "ObjectCountRelation"
     /\ Cardinality(SecondObjects(kind.kwargs, passed)) = Len(passed))
    => /\ locals.num_second_objects_to_modify = 1
       /\ \A i \in locals.second_object_indices_to_modify :
             NeitherSecondNorFirst(kind.kwargs, locals.new_assignments[i])
       /\ Cardinality(locals.indices_to_modify)
             >= SmallestFlippingCount(kind.kwargs, AfterMakingRoom)
       /\ Cardinality(locals.indices_to_modify)
             <= Cardinality(NonFirstObjects(kind.kwargs, AfterMakingRoom))

\* the active entries of a row's type encoding, as 0-based type indices
ActiveTypes(row) == {i - 1 : i \in {j \in DOMAIN row.type : row.type[j] # 0}}

\* the target rows and the reference rows of an input
TargetRowsOf(input) ==
    {input[i] : i \in 1..TargetRows(kind.class, kind.kwargs)}
ReferenceRowsOf(input) ==
    {input[i] : i \in (TargetRows(kind.class, kind.kwargs) + 1)..Len(input)}
AllRowsOf(input) == {input[i] : i \in DOMAIN input}

\* the ranges of type indices of reference, training target and test targets
ReferenceTypeRange == 0..(kind.kwargs.n_reference_types - 1)
TrainTargetTypeRange ==
    kind.kwargs.n_reference_types..
        (kind.kwargs.n_reference_types + kind.kwargs.n_train_target_types - 1)
TestTargetTypeRange ==
    (kind.kwargs.n_reference_types + kind.kwargs.n_train_target_types)..
        (generator_n_types(kind.kwargs) - 1)

\* C30: every object of a created input has a one-hot type encoding of width
\* n_types; reference objects have a reference type index; the target of an
\* input created with train=True has a training target type index; with
\* n_test_target_types > 0 the target of a test input has a test-only type
\* index, which no object of a training input has
C30_HeldOutTypes ==
    LET train == gen.train_input
        test == gen.test_input
    IN  /\ \A input \in {train, test} \ {None} :
              /\ \A row \in AllRowsOf(input) :
                    IsOneHot(row.type, generator_n_types(kind.kwargs))
              /\ \A row \in ReferenceRowsOf(input) :
                    ActiveTypes(row) \subseteq ReferenceTypeRange
        /\ train # None =>
              \A row \in TargetRowsOf(train) :
                  ActiveTypes(row) \subseteq TrainTargetTypeRange
        /\ (test # None /\ kind.kwargs.n_test_target_types > 0) =>
              \A row \in TargetRowsOf(test) :
                  /\ ActiveTypes(row) \subseteq TestTargetTypeRange
                  /\ train # None =>
                        \A other \in AllRowsOf(train) :
                            ActiveTypes(other) \cap ActiveTypes(row) = {}

\* C30 witness: a generator with two types of each kind has created a training
\* input and a test input with two reference objects of two cells, and the
\* test target has the last type index
C30_Witness ==
    /\ gen.train_input # None
    /\ gen.test_input # None
    /\ kind.class = "ObjectGeneratorWithoutSize"
    /\ kind.kwargs.reference_object_length = 2
    /\ kind.kwargs.n_reference_types = 2
    /\ kind.kwargs.n_train_target_types = 2
    /\ kind.kwargs.n_test_target_types = 2
    /\ Len(gen.test_input) = 5
    /\ ActiveTypes(gen.test_input[1]) = {generator_n_types(kind.kwargs) - 1}
    /\ ActiveTypes(gen.train_input[1]) = {kind.kwargs.n_reference_types}

====
